---- MODULE Spec2Model ----
(***************************************************************************)
(* Model of the presentation diff of markdown-utils: the line differ       *)
(* (src/diff/textDiff.ts), the slide matcher (src/diff/matchSlides.ts),    *)
(* the classifier (src/diff/diffPresentations.ts), the summary             *)
(* and its report (diffSummary.ts), the text normalizer, and the           *)
(* markdown-to-presentation parser with updatePresentationSlide            *)
(* (src/utils/presentation.ts).                                            *)
(*                                                                         *)
(* A JavaScript string is a sequence of one-character strings; an optional *)
(* field (beforeSlide?, afterIndex?, contentChanges?) is a sequence of     *)
(* length 0 (undefined) or 1 (the value).                                  *)
(***************************************************************************)
EXTENDS Integers, Sequences, FiniteSets, TLC

VARIABLES
    \* diffText(beforeContent, afterContent), one loop iteration at a time
    beforeContent, afterContent, beforeLines, afterLines, lcs, i, j, result, tpc,
    \* diffPresentations(before, after), one step at a time; markdownBefore and
    \* markdownAfter are the documents the presentations are parsed from
    markdownBefore, markdownAfter, before, after,
    matches, matchedBeforeIndices, matchedAfterIndices,
    unmatchedBeforeIndices, unmatchedAfterIndices, idx,
    slideDiffs, summary, pc,
    \* hasChanges(diff) and formatDiffSummary(diff.summary) of the returned diff
    changed, summaryText,
    \* normalizedTextEquals(argText1, argText2): the normalized texts, the first one
    \* normalized once more, and the verdict
    argText1, argText2, norm1, norm2, norm11, equals, npc,
    \* parseMarkdownIntoPresentation(argMarkdown) and
    \* updatePresentationSlide(argPresentation, slideIndex, newContent): the
    \* returned presentation or the message of the thrown Error
    argMarkdown, argPresentation, slideIndex, newContent, updated, thrown, ppc,
    \* parseBashCommands(codeString), one loop iteration at a time; bashLines is
    \* its lines and lineIdx its i
    codeString, bashLines, commands, currentCommand, commandStartLine,
    currentDescription, inBackslashContinuation, lineIdx, bpc

textVars == <<beforeContent, afterContent, beforeLines, afterLines, lcs, i, j, result, tpc>>

inputVars == <<markdownBefore, markdownAfter, before, after>>

matchVars == <<matches, matchedBeforeIndices, matchedAfterIndices,
               unmatchedBeforeIndices, unmatchedAfterIndices, idx>>

diffVars == <<inputVars, matchVars, slideDiffs, summary, pc>>

reportVars == <<changed, summaryText>>

normVars == <<argText1, argText2, norm1, norm2, norm11, equals, npc>>

presVars == <<argMarkdown, argPresentation, slideIndex, newContent, updated, thrown, ppc>>

bashVars == <<codeString, bashLines, commands, currentCommand, commandStartLine,
              currentDescription, inBackslashContinuation, lineIdx, bpc>>

utilVars == <<reportVars, normVars, presVars, bashVars>>

vars == <<textVars, diffVars, utilVars>>

-----------------------------------------------------------------------------
(* Bounds of the checked instances *)

\* longest text handed to diffText, in characters
MaxLen == 4

\* most slides in a presentation handed to diffPresentations
MaxSlides == 3

\* most lines of a markdown document handed to parseMarkdownIntoPresentation
MaxMdLines == 2

\* longest text handed to normalizedTextEquals, in characters
MaxTextLen == 3

\* most lines of a markdown document parsed on its own
MaxDocLines == 4

-----------------------------------------------------------------------------
(* JavaScript strings *)

NL == "\n"

CR == "\r"

SP == " "

HASH == "#"

\* the grave accent U+0060 of a code fence, which a TLA+ string cannot hold
BACKTICK == "grave"

\* the characters String.prototype.trim and the regex class \s treat as white space
IsWhitespace(c) == c \in {SP, "\t", NL, CR}

\* the characters that the regex atom . does not match
IsLineTerminator(c) == c \in {NL, CR}

Min(a, b) == IF a <= b THEN a ELSE b

Max(a, b) == IF a >= b THEN a ELSE b

\* String.prototype.trimEnd
RECURSIVE TrimEnd(_)
TrimEnd(s) ==
    IF s # <<>> /\ IsWhitespace(s[Len(s)]) THEN TrimEnd(SubSeq(s, 1, Len(s) - 1)) ELSE s

\* String.prototype.trimStart
RECURSIVE TrimStart(_)
TrimStart(s) ==
    IF s # <<>> /\ IsWhitespace(s[1]) THEN TrimStart(Tail(s)) ELSE s

\* String.prototype.trim
Trim(s) == TrimStart(TrimEnd(s))

\* String.prototype.startsWith
StartsWith(s, p) == Len(s) >= Len(p) /\ SubSeq(s, 1, Len(p)) = p

\* String.prototype.split('\n'): the pieces between the separators; '' gives ['']
RECURSIVE SplitFrom(_, _, _)
SplitFrom(s, k, cur) ==
    IF k > Len(s) THEN <<cur>>
    ELSE IF s[k] = NL THEN <<cur>> \o SplitFrom(s, k + 1, <<>>)
    ELSE SplitFrom(s, k + 1, Append(cur, s[k]))

Split(s) == SplitFrom(s, 1, <<>>)

\* Array.prototype.join('\n')
RECURSIVE Join(_)
Join(lines) ==
    IF lines = <<>> THEN <<>>
    ELSE IF Len(lines) = 1 THEN lines[1]
    ELSE lines[1] \o <<NL>> \o Join(Tail(lines))

\* String.prototype.replace(/\r\n/g, '\n')
RECURSIVE ReplaceCrLf(_)
ReplaceCrLf(s) ==
    IF s = <<>> THEN <<>>
    ELSE IF Len(s) >= 2 /\ s[1] = CR /\ s[2] = NL THEN <<NL>> \o ReplaceCrLf(SubSeq(s, 3, Len(s)))
    ELSE <<s[1]>> \o ReplaceCrLf(Tail(s))

\* Array.prototype.map over a sequence
MapSeq(Op(_), s) == [k \in 1..Len(s) |-> Op(s[k])]

\* Array.prototype.filter over a sequence
RECURSIVE FilterSeq(_, _)
FilterSeq(Test(_), s) ==
    IF s = <<>> THEN <<>>
    ELSE (IF Test(s[1]) THEN <<s[1]>> ELSE <<>>) \o FilterSeq(Test, Tail(s))

\* all strings over an alphabet of at most n characters
StringsUpTo(alphabet, n) == UNION {[1..k -> alphabet] : k \in 0..n}

-----------------------------------------------------------------------------
(* src/diff/textDiff.ts *)

\* normalizeText with a final trim that strips one character from each end
NormalizeTextTrimOnce(text) ==
    LET joined == Join(MapSeq(TrimEnd, Split(ReplaceCrLf(text))))
        front == IF joined # <<>> /\ IsWhitespace(joined[1]) THEN Tail(joined) ELSE joined
    IN  IF front # <<>> /\ IsWhitespace(front[Len(front)])
        THEN SubSeq(front, 1, Len(front) - 1) ELSE front

NormalizeText(text) ==
    Trim(Join(MapSeq(TrimEnd, Split(ReplaceCrLf(text)))))

NormalizedTextEquals(text1, text2) == NormalizeText(text1) = NormalizeText(text2)

\* the split of diffText: '' is no line at all, not one empty line
SplitLinesNoEmptyCase(content) == Split(content)

SplitLines(content) == IF content = <<>> THEN <<>> ELSE Split(content)

\* lcs[i][j]: the length of an LCS of beforeLines[0..i-1] and afterLines[0..j-1]
LongestCommonSubsequence(bl, al) ==
    LET tbl[a \in 0..Len(bl), b \in 0..Len(al)] ==
            IF a = 0 \/ b = 0 THEN 0
            ELSE IF bl[a] = al[b] THEN tbl[a - 1, b - 1] + 1
            ELSE Max(tbl[a - 1, b], tbl[a, b - 1])
    IN  [a \in 0..Len(bl), b \in 0..Len(al) |-> tbl[a, b]]

\* the loop iteration preferring remove over add when the two cells tie
BacktrackStepPreferRemove(bl, al, tbl, st) ==
    IF st.i > 0 /\ st.j > 0 /\ bl[st.i] = al[st.j]
    THEN [i |-> st.i - 1, j |-> st.j - 1,
          result |-> <<[type |-> "unchanged", value |-> bl[st.i]]>> \o st.result]
    ELSE IF st.i > 0 /\ (st.j = 0 \/ tbl[st.i, st.j - 1] <= tbl[st.i - 1, st.j])
    THEN [i |-> st.i - 1, j |-> st.j,
          result |-> <<[type |-> "remove", value |-> bl[st.i]]>> \o st.result]
    ELSE [i |-> st.i, j |-> st.j - 1,
          result |-> <<[type |-> "add", value |-> al[st.j]]>> \o st.result]

\* the loop iteration stepping towards the smaller of the two cells
BacktrackStepWrongWay(bl, al, tbl, st) ==
    IF st.i > 0 /\ st.j > 0 /\ bl[st.i] = al[st.j]
    THEN [i |-> st.i - 1, j |-> st.j - 1,
          result |-> <<[type |-> "unchanged", value |-> bl[st.i]]>> \o st.result]
    ELSE IF st.j > 0 /\ (st.i = 0 \/ tbl[st.i, st.j - 1] <= tbl[st.i - 1, st.j])
    THEN [i |-> st.i, j |-> st.j - 1,
          result |-> <<[type |-> "add", value |-> al[st.j]]>> \o st.result]
    ELSE [i |-> st.i - 1, j |-> st.j,
          result |-> <<[type |-> "remove", value |-> bl[st.i]]>> \o st.result]

\* the loop iteration whose second branch needs lcs[i][j-1] > lcs[i-1][j]: two
\* equal cells take no branch
BacktrackStepNoTie(bl, al, tbl, st) ==
    IF st.i > 0 /\ st.j > 0 /\ bl[st.i] = al[st.j]
    THEN [i |-> st.i - 1, j |-> st.j - 1,
          result |-> <<[type |-> "unchanged", value |-> bl[st.i]]>> \o st.result]
    ELSE IF st.j > 0 /\ (st.i = 0 \/ tbl[st.i, st.j - 1] > tbl[st.i - 1, st.j])
    THEN [i |-> st.i, j |-> st.j - 1,
          result |-> <<[type |-> "add", value |-> al[st.j]]>> \o st.result]
    ELSE IF st.i > 0 /\ (st.j = 0 \/ tbl[st.i, st.j - 1] < tbl[st.i - 1, st.j])
    THEN [i |-> st.i - 1, j |-> st.j,
          result |-> <<[type |-> "remove", value |-> bl[st.i]]>> \o st.result]
    ELSE st

\* one iteration of the while loop of buildDiffFromLCS (entered with i > 0 or j > 0)
BacktrackStep(bl, al, tbl, st) ==
    IF st.i > 0 /\ st.j > 0 /\ bl[st.i] = al[st.j]
    THEN [i |-> st.i - 1, j |-> st.j - 1,
          result |-> <<[type |-> "unchanged", value |-> bl[st.i]]>> \o st.result]
    ELSE IF st.j > 0 /\ (st.i = 0 \/ tbl[st.i, st.j - 1] >= tbl[st.i - 1, st.j])
    THEN [i |-> st.i, j |-> st.j - 1,
          result |-> <<[type |-> "add", value |-> al[st.j]]>> \o st.result]
    ELSE IF st.i > 0 /\ (st.j = 0 \/ tbl[st.i, st.j - 1] < tbl[st.i - 1, st.j])
    THEN [i |-> st.i - 1, j |-> st.j,
          result |-> <<[type |-> "remove", value |-> bl[st.i]]>> \o st.result]
    ELSE st

\* the renumbering map with lineNumber: index, counting from 0
RenumberZeroBased(res) ==
    [k \in 1..Len(res) |->
        [type |-> res[k].type, value |-> res[k].value, lineNumber |-> k - 1]]

\* result.map((diff, index) => ({...diff, lineNumber: index + 1}))
Renumber(res) ==
    [k \in 1..Len(res) |->
        [type |-> res[k].type, value |-> res[k].value, lineNumber |-> k]]

RECURSIVE Backtrack(_, _, _, _)
Backtrack(bl, al, tbl, st) ==
    IF st.i > 0 \/ st.j > 0 THEN Backtrack(bl, al, tbl, BacktrackStep(bl, al, tbl, st))
    ELSE st.result

BuildDiffFromLCS(bl, al, tbl) ==
    Renumber(Backtrack(bl, al, tbl, [i |-> Len(bl), j |-> Len(al), result |-> <<>>]))

DiffText(b, a) ==
    IF b = <<>> /\ a = <<>> THEN <<>>
    ELSE LET bl == SplitLines(b)
             al == SplitLines(a)
         IN  BuildDiffFromLCS(bl, al, LongestCommonSubsequence(bl, al))

-----------------------------------------------------------------------------
(* Optional values and array helpers *)

None == <<>>

Some(v) == <<v>>

IsSome(o) == o # <<>>

\* a ?? b
Coalesce(o, default) == IF IsSome(o) THEN o[1] ELSE default

\* the indices 0..n-1 kept by a test, ascending:  arr.map((_, i) => i).filter(test)
RECURSIVE FilterIndices(_, _, _)
FilterIndices(Test(_), k, n) ==
    IF k >= n THEN <<>>
    ELSE (IF Test(k) THEN <<k>> ELSE <<>>) \o FilterIndices(Test, k + 1, n)

-----------------------------------------------------------------------------
(* src/diff/matchSlides.ts *)

\* String.prototype.toLowerCase on the letters of the checked instances
ToLowerCase(s) ==
    LET Lower(c) == CASE c = "A" -> "a" [] c = "B" -> "b" [] OTHER -> c
    IN  MapSeq(Lower, s)

\* String.prototype.replace(/\s+/g, ' ')
RECURSIVE CollapseWhitespace(_)
CollapseWhitespace(s) ==
    IF s = <<>> THEN <<>>
    ELSE IF IsWhitespace(s[1])
         THEN <<SP>> \o CollapseWhitespace(TrimStart(s))
         ELSE <<s[1]>> \o CollapseWhitespace(Tail(s))

\* normalizeTitleForMatching without its toLowerCase
NormalizeTitleForMatchingCaseSensitive(title) == CollapseWhitespace(Trim(title))

NormalizeTitleForMatching(title) == ToLowerCase(CollapseWhitespace(Trim(title)))

NormalizeSlideContent(slide) == NormalizeText(slide.location.content)

\* slidesAreEqual comparing the raw contents
SlidesAreEqualRaw(slide1, slide2) == slide1.location.content = slide2.location.content

SlidesAreEqual(slide1, slide2) == NormalizeSlideContent(slide1) = NormalizeSlideContent(slide2)

\* the inner loop of phase 1 without its test of matchedAfterIndices
TitleMatchIndexNoMatchedTest(beforeSlide, afterSlides, matchedAfter) ==
    LET candidates == {a \in 0..(Len(afterSlides) - 1) :
                          NormalizeTitleForMatching(beforeSlide.title)
                              = NormalizeTitleForMatching(afterSlides[a + 1].title)}
    IN  IF candidates = {} THEN None
        ELSE Some(CHOOSE a \in candidates : \A c \in candidates : a <= c)

\* the inner loop of phase 1 scanning the after-slides from the last one down
TitleMatchIndexLast(beforeSlide, afterSlides, matchedAfter) ==
    LET candidates == {a \in 0..(Len(afterSlides) - 1) :
                          /\ a \notin matchedAfter
                          /\ NormalizeTitleForMatching(beforeSlide.title)
                                 = NormalizeTitleForMatching(afterSlides[a + 1].title)}
    IN  IF candidates = {} THEN None
        ELSE Some(CHOOSE a \in candidates : \A c \in candidates : a >= c)

\* the inner loop of phase 1 finding no title match at all
TitleMatchIndexNoPhase1(beforeSlide, afterSlides, matchedAfter) == None

\* the inner loop of phase 1 leaving after its first iteration: only after-index 0
\* is ever tried
TitleMatchIndexFirstOnly(beforeSlide, afterSlides, matchedAfter) ==
    IF /\ Len(afterSlides) > 0
       /\ 0 \notin matchedAfter
       /\ NormalizeTitleForMatching(beforeSlide.title)
              = NormalizeTitleForMatching(afterSlides[1].title)
    THEN Some(0) ELSE None

\* the inner loop of phase 1: the first after-index not yet matched whose
\* normalized title equals the before-slide's, if there is one
TitleMatchIndex(beforeSlide, afterSlides, matchedAfter) ==
    LET candidates == {a \in 0..(Len(afterSlides) - 1) :
                          /\ a \notin matchedAfter
                          /\ NormalizeTitleForMatching(beforeSlide.title)
                                 = NormalizeTitleForMatching(afterSlides[a + 1].title)}
    IN  IF candidates = {} THEN None
        ELSE Some(CHOOSE a \in candidates : \A c \in candidates : a <= c)

\* a phase-3 entry for an unmatched before-slide that also names an after-index
RemovedMatchWithAfterIndex(beforeSlides, beforeIndex) ==
    [beforeSlide |-> Some(beforeSlides[beforeIndex + 1]), afterSlide |-> None,
     beforeIndex |-> Some(beforeIndex), afterIndex |-> Some(beforeIndex), matchedBy |-> "none"]

\* the entry phase 3 pushes for an unmatched before-slide
RemovedMatch(beforeSlides, beforeIndex) ==
    [beforeSlide |-> Some(beforeSlides[beforeIndex + 1]), afterSlide |-> None,
     beforeIndex |-> Some(beforeIndex), afterIndex |-> None, matchedBy |-> "none"]

\* the entry phase 3 pushes for an unmatched after-slide
AddedMatch(afterSlides, afterIndex) ==
    [beforeSlide |-> None, afterSlide |-> Some(afterSlides[afterIndex + 1]),
     beforeIndex |-> None, afterIndex |-> Some(afterIndex), matchedBy |-> "none"]

\* the entry phases 1 and 2 push for a pair
PairMatch(beforeSlides, afterSlides, beforeIndex, afterIndex, by) ==
    [beforeSlide |-> Some(beforeSlides[beforeIndex + 1]),
     afterSlide |-> Some(afterSlides[afterIndex + 1]),
     beforeIndex |-> Some(beforeIndex), afterIndex |-> Some(afterIndex), matchedBy |-> by]

\* the first loop of phase 3: an entry for every before-index not matched, ascending
Phase3Removed(ms, beforeSlides, matchedBefore) ==
    LET Unmatched(k) == k \notin matchedBefore
        Entry(k) == RemovedMatch(beforeSlides, k)
    IN  ms \o MapSeq(Entry, FilterIndices(Unmatched, 0, Len(beforeSlides)))

\* phase 3 without its second loop
Phase3AddedSkipped(ms, afterSlides, matchedAfter) == ms

\* the second loop of phase 3: an entry for every after-index not matched, ascending
Phase3Added(ms, afterSlides, matchedAfter) ==
    LET Unmatched(k) == k \notin matchedAfter
        Entry(k) == AddedMatch(afterSlides, k)
    IN  ms \o MapSeq(Entry, FilterIndices(Unmatched, 0, Len(afterSlides)))

\* a.beforeIndex ?? a.afterIndex ?? 0
SortKey(m) == Coalesce(m.beforeIndex, Coalesce(m.afterIndex, 0))

\* the final sort left out
SortMatchesSkipped(ms) == ms

\* matches.sort((a, b) => aIndex - bIndex): ascending by key, equal keys in their
\* order of insertion (Array.prototype.sort is stable)
SortMatches(ms) ==
    LET RECURSIVE FromKey(_)
        FromKey(k) ==
            IF \A n \in 1..Len(ms) : SortKey(ms[n]) < k THEN <<>>
            ELSE LET HasKey(m) == SortKey(m) = k
                 IN  FilterSeq(HasKey, ms) \o FromKey(k + 1)
    IN  FromKey(0)

-----------------------------------------------------------------------------
(* src/diff/diffPresentations.ts and diffSummary.ts *)

\* createSlideDiff comparing the titles as the matcher does
CreateSlideDiffNormalizedTitles(match) ==
    LET status == IF ~IsSome(match.beforeSlide) THEN "added"
                  ELSE IF ~IsSome(match.afterSlide) THEN "removed"
                  ELSE IF ~SlidesAreEqual(match.beforeSlide[1], match.afterSlide[1]) THEN "modified"
                  ELSE IF match.beforeIndex # match.afterIndex THEN "moved"
                  ELSE "unchanged"
    IN  [status |-> status,
         beforeSlide |-> match.beforeSlide, afterSlide |-> match.afterSlide,
         beforeIndex |-> match.beforeIndex, afterIndex |-> match.afterIndex,
         contentChanges |->
             IF status = "modified"
             THEN Some(DiffText(match.beforeSlide[1].location.content,
                                match.afterSlide[1].location.content))
             ELSE None,
         titleChanged |->
             /\ IsSome(match.beforeSlide) /\ IsSome(match.afterSlide)
             /\ NormalizeTitleForMatching(match.beforeSlide[1].title)
                    # NormalizeTitleForMatching(match.afterSlide[1].title)]

\* createSlideDiff handing the normalized contents to diffText
CreateSlideDiffNormalizedDiff(match) ==
    LET status == IF ~IsSome(match.beforeSlide) THEN "added"
                  ELSE IF ~IsSome(match.afterSlide) THEN "removed"
                  ELSE IF ~SlidesAreEqual(match.beforeSlide[1], match.afterSlide[1]) THEN "modified"
                  ELSE IF match.beforeIndex # match.afterIndex THEN "moved"
                  ELSE "unchanged"
    IN  [status |-> status,
         beforeSlide |-> match.beforeSlide, afterSlide |-> match.afterSlide,
         beforeIndex |-> match.beforeIndex, afterIndex |-> match.afterIndex,
         contentChanges |->
             IF status = "modified"
             THEN Some(DiffText(NormalizeSlideContent(match.beforeSlide[1]),
                                NormalizeSlideContent(match.afterSlide[1])))
             ELSE None,
         titleChanged |->
             /\ IsSome(match.beforeSlide) /\ IsSome(match.afterSlide)
             /\ match.beforeSlide[1].title # match.afterSlide[1].title]

\* createSlideDiff testing the position before the content
CreateSlideDiffPositionFirst(match) ==
    LET both == IsSome(match.beforeSlide) /\ IsSome(match.afterSlide)
        contentEqual == SlidesAreEqual(match.beforeSlide[1], match.afterSlide[1])
        status == IF ~IsSome(match.beforeSlide) THEN "added"
                  ELSE IF ~IsSome(match.afterSlide) THEN "removed"
                  ELSE IF match.beforeIndex # match.afterIndex THEN "moved"
                  ELSE IF contentEqual THEN "unchanged"
                  ELSE "modified"
    IN  [status |-> status,
         beforeSlide |-> match.beforeSlide, afterSlide |-> match.afterSlide,
         beforeIndex |-> match.beforeIndex, afterIndex |-> match.afterIndex,
         contentChanges |->
             IF status = "modified"
             THEN Some(DiffText(match.beforeSlide[1].location.content,
                                match.afterSlide[1].location.content))
             ELSE None,
         titleChanged |-> both /\ match.beforeSlide[1].title # match.afterSlide[1].title]

\* createSlideDiff handing the two contents to diffText in the other order
CreateSlideDiffSwapped(match) ==
    LET both == IsSome(match.beforeSlide) /\ IsSome(match.afterSlide)
        contentEqual == SlidesAreEqual(match.beforeSlide[1], match.afterSlide[1])
        status == IF ~IsSome(match.beforeSlide) THEN "added"
                  ELSE IF ~IsSome(match.afterSlide) THEN "removed"
                  ELSE IF ~contentEqual THEN "modified"
                  ELSE IF match.beforeIndex # match.afterIndex THEN "moved"
                  ELSE "unchanged"
    IN  [status |-> status,
         beforeSlide |-> match.beforeSlide, afterSlide |-> match.afterSlide,
         beforeIndex |-> match.beforeIndex, afterIndex |-> match.afterIndex,
         contentChanges |->
             IF status = "modified"
             THEN Some(DiffText(match.afterSlide[1].location.content,
                                match.beforeSlide[1].location.content))
             ELSE None,
         titleChanged |-> both /\ match.beforeSlide[1].title # match.afterSlide[1].title]

CreateSlideDiff(match) ==
    LET beforeSlide == match.beforeSlide
        afterSlide == match.afterSlide
        both == IsSome(beforeSlide) /\ IsSome(afterSlide)
        contentEqual == SlidesAreEqual(beforeSlide[1], afterSlide[1])
        positionChanged == match.beforeIndex # match.afterIndex
        status ==
            IF ~IsSome(beforeSlide) /\ IsSome(afterSlide) THEN "added"
            ELSE IF IsSome(beforeSlide) /\ ~IsSome(afterSlide) THEN "removed"
            ELSE IF both
                 THEN IF contentEqual
                      THEN IF positionChanged THEN "moved" ELSE "unchanged"
                      ELSE "modified"
                 ELSE "unchanged"
    IN  [status |-> status,
         beforeSlide |-> beforeSlide,
         afterSlide |-> afterSlide,
         beforeIndex |-> match.beforeIndex,
         afterIndex |-> match.afterIndex,
         contentChanges |->
             IF both /\ ~contentEqual
             THEN Some(DiffText(beforeSlide[1].location.content,
                                afterSlide[1].location.content))
             ELSE None,
         titleChanged |-> IF both THEN beforeSlide[1].title # afterSlide[1].title ELSE FALSE]

\* the summary diffPresentations puts in the diff before calculateDiffSummary runs
EmptySummary ==
    [totalSlidesBefore |-> 0, totalSlidesAfter |-> 0,
     added |-> 0, removed |-> 0, modified |-> 0, unchanged |-> 0, moved |-> 0]

\* the switch of calculateDiffSummary without its case 'moved'
CountStatusNoMoved(sum, status) ==
    CASE status = "added" -> [sum EXCEPT !.added = @ + 1]
      [] status = "removed" -> [sum EXCEPT !.removed = @ + 1]
      [] status = "modified" -> [sum EXCEPT !.modified = @ + 1]
      [] status = "unchanged" -> [sum EXCEPT !.unchanged = @ + 1]
      [] OTHER -> sum

\* the switch of calculateDiffSummary
CountStatus(sum, status) ==
    CASE status = "added" -> [sum EXCEPT !.added = @ + 1]
      [] status = "removed" -> [sum EXCEPT !.removed = @ + 1]
      [] status = "modified" -> [sum EXCEPT !.modified = @ + 1]
      [] status = "unchanged" -> [sum EXCEPT !.unchanged = @ + 1]
      [] status = "moved" -> [sum EXCEPT !.moved = @ + 1]
      [] OTHER -> sum

\* calculateDiffSummary taking both totals from the number of slideDiffs
CalculateDiffSummaryTotalsFromDiffs(diff) ==
    LET RECURSIVE Count(_, _)
        Count(sum, k) ==
            IF k > Len(diff.slideDiffs) THEN sum
            ELSE Count(CountStatus(sum, diff.slideDiffs[k].status), k + 1)
    IN  Count([EmptySummary EXCEPT !.totalSlidesBefore = Len(diff.slideDiffs),
                                   !.totalSlidesAfter = Len(diff.slideDiffs)], 1)

CalculateDiffSummary(diff) ==
    LET RECURSIVE Count(_, _)
        Count(sum, k) ==
            IF k > Len(diff.slideDiffs) THEN sum
            ELSE Count(CountStatus(sum, diff.slideDiffs[k].status), k + 1)
    IN  Count([EmptySummary EXCEPT !.totalSlidesBefore = Len(diff.before.slides),
                                   !.totalSlidesAfter = Len(diff.after.slides)], 1)

-----------------------------------------------------------------------------
(* src/utils/presentation.ts *)

\* String.prototype.charCodeAt for the characters of the checked instances
CharCode(c) ==
    CASE c = "\t" -> 9 [] c = NL -> 10 [] c = CR -> 13 [] c = SP -> 32
      [] c = HASH -> 35 [] c = "A" -> 65 [] c = "B" -> 66 [] c = BACKTICK -> 96
      [] c = "a" -> 97 [] c = "b" -> 98 [] c = "x" -> 120 [] c = "y" -> 121
      [] c = "~" -> 126

\* ((hash << 5) - hash + char) & itself: 31 * hash + char as a signed 32-bit
\* integer, computed on 16-bit halves
HashStep(hash, char) ==
    LET q == hash \div 65536
        r == hash % 65536
        t == 31 * r + char
        hi == (31 * q + (t \div 65536)) % 65536
        lo == t % 65536
    IN  (IF hi >= 32768 THEN hi - 65536 ELSE hi) * 65536 + lo

Digits36 ==
    << "0", "1", "2", "3", "4", "5", "6", "7", "8", "9", "a", "b", "c", "d", "e", "f", "g", "h",
       "i", "j", "k", "l", "m", "n", "o", "p", "q", "r", "s", "t", "u", "v", "w", "x", "y", "z" >>

\* Number.prototype.toString(radix) of a natural number
RECURSIVE ToRadix(_, _)
ToRadix(n, radix) ==
    IF n < radix THEN <<Digits36[n + 1]>>
    ELSE ToRadix(n \div radix, radix) \o <<Digits36[(n % radix) + 1]>>

HashMarkdownString(str) ==
    LET RECURSIVE Fold(_, _)
        Fold(hash, k) == IF k > Len(str) THEN hash
                         ELSE Fold(HashStep(hash, CharCode(str[k])), k + 1)
        hash == Fold(0, 1)
    IN  ToRadix(IF hash < 0 THEN -hash ELSE hash, 36)

\* the template slide-${index}-${hashMarkdownString(content)}
SlideId(index, content) ==
    <<"s", "l", "i", "d", "e", "-">> \o ToRadix(index, 10) \o <<"-">> \o HashMarkdownString(content)

\* line.match(/^#+\s+(.+)$/): the capture, if the line matches. The line is one or
\* more #, one or more white-space characters, then one or more characters none
\* of which is a line terminator; when only white space follows the # run the
\* capture is the last white-space character
HeadingMatch(line) ==
    LET RECURSIVE Run(_, _)
        \* the end of the run of characters passing the test that starts after position k
        Run(k, kind) ==
            IF k < Len(line) /\ (IF kind = "hash" THEN line[k + 1] = HASH
                                 ELSE IsWhitespace(line[k + 1]))
            THEN Run(k + 1, kind) ELSE k
        h == Run(0, "hash")
        w == Run(h, "space")
        start == IF w < Len(line) THEN w + 1 ELSE w
        capture == SubSeq(line, start, Len(line))
    IN  IF h >= 1 /\ w >= h + 1 /\ start >= h + 2
           /\ \A k \in 1..Len(capture) : ~IsLineTerminator(capture[k])
        THEN Some(capture) ELSE None

ExtractSlideTitle(content) ==
    LET NonBlank(line) == Trim(line) # <<>>
        lines == FilterSeq(NonBlank, Split(content))
        IsHeading(line) == IsSome(HeadingMatch(line))
        headings == FilterSeq(IsHeading, lines)
    IN  IF headings # <<>> THEN Trim(HeadingMatch(headings[1])[1])
        ELSE IF lines # <<>>
             THEN IF Len(lines[1]) > 50 THEN SubSeq(lines[1], 1, 47) \o <<".", ".", ".">>
                  ELSE lines[1]
        ELSE <<"U", "n", "t", "i", "t", "l", "e", "d", " ", "S", "l", "i", "d", "e">>

\* fence tracking that never enters a code block
FenceStepNoFence(fence, line) == fence

\* the fence tracking both scans share: the state after the line
FenceStep(fence, line) ==
    LET t == Trim(line)
    IN  IF StartsWith(t, <<BACKTICK, BACKTICK, BACKTICK>>) \/ StartsWith(t, <<"~", "~", "~">>)
        THEN IF ~fence.inCodeBlock
             THEN [inCodeBlock |-> TRUE, codeBlockDelimiter |-> SubSeq(t, 1, 3)]
             ELSE IF StartsWith(t, fence.codeBlockDelimiter)
                  THEN [inCodeBlock |-> FALSE, codeBlockDelimiter |-> <<>>]
                  ELSE fence
        ELSE fence

\* a line that starts with # or ## but not ###, once trimmed
IsHeaderLine(line) ==
    StartsWith(Trim(line), <<HASH>>) /\ ~StartsWith(Trim(line), <<HASH, HASH, HASH>>)

DetectMultipleHeaders(markdownContent) ==
    LET lines == Split(markdownContent)
        RECURSIVE Count(_, _, _)
        Count(k, fence, total) ==
            IF k > Len(lines) THEN total
            ELSE LET f == FenceStep(fence, lines[k])
                 IN  Count(k + 1, f,
                           IF ~f.inCodeBlock /\ IsHeaderLine(lines[k]) THEN total + 1 ELSE total)
    IN  Count(1, [inCodeBlock |-> FALSE, codeBlockDelimiter |-> <<>>], 0) > 1

\* the slide both paths of the parser build from a run of lines
NewSlide(index, slideContent, startLine, endLine) ==
    [id |-> SlideId(index, slideContent),
     title |-> ExtractSlideTitle(slideContent),
     location |-> [startLine |-> startLine, endLine |-> endLine, content |-> slideContent]]

ParseMarkdownIntoPresentation(markdownContent) ==
    LET lines == Split(markdownContent)
        RECURSIVE Loop(_, _, _, _, _)
        \* k is i + 1: the lines are numbered from 0 in the code
        Loop(k, slides, currentSlideLines, currentSlideStartLine, fence) ==
            IF k > Len(lines)
            THEN IF Len(currentSlideLines) > 0
                 THEN Append(slides, NewSlide(Len(slides), Join(currentSlideLines),
                                              currentSlideStartLine, Len(lines) - 1))
                 ELSE slides
            ELSE LET f == FenceStep(fence, lines[k])
                     isDelimiter == ~f.inCodeBlock /\ IsHeaderLine(lines[k])
                 IN  IF isDelimiter /\ Len(currentSlideLines) > 0
                     THEN Loop(k + 1,
                               Append(slides, NewSlide(Len(slides), Join(currentSlideLines),
                                                       currentSlideStartLine, (k - 1) - 1)),
                               <<lines[k]>>, k - 1, f)
                     ELSE Loop(k + 1, slides, Append(currentSlideLines, lines[k]),
                               currentSlideStartLine, f)
    IN  IF ~DetectMultipleHeaders(markdownContent)
        THEN [slides |-> <<NewSlide(0, markdownContent, 0, Len(lines) - 1)>>,
              originalContent |-> markdownContent]
        ELSE [slides |-> Loop(1, <<>>, <<>>, 0,
                              [inCodeBlock |-> FALSE, codeBlockDelimiter |-> <<>>]),
              originalContent |-> markdownContent]

SerializePresentationToMarkdown(presentation) ==
    LET Content(slide) == slide.location.content
    IN  Join(MapSeq(Content, presentation.slides))

\* updatePresentationSlide without its guard on the index: an index outside the
\* slide list leaves the presentation as it is
UpdatePresentationSlideNoThrow(pres, index, content) ==
    IF index < 0 \/ index >= Len(pres.slides)
    THEN [thrown |-> None, value |-> Some(pres)]
    ELSE LET slide == pres.slides[index + 1]
             updatedSlides ==
                 [pres.slides EXCEPT ![index + 1] =
                     [slide EXCEPT !.location.content = content,
                                   !.title = ExtractSlideTitle(content)]]
         IN  [thrown |-> None,
              value |-> Some([slides |-> updatedSlides,
                              originalContent |->
                                  SerializePresentationToMarkdown([slides |-> updatedSlides])])]

\* updatePresentationSlide returning the presentation's old originalContent
UpdatePresentationSlideStaleContent(pres, index, content) ==
    IF index < 0 \/ index >= Len(pres.slides)
    THEN [thrown |-> Some("Invalid slide index"), value |-> None]
    ELSE LET slide == pres.slides[index + 1]
             updatedSlides ==
                 [pres.slides EXCEPT ![index + 1] =
                     [slide EXCEPT !.location.content = content,
                                   !.title = ExtractSlideTitle(content)]]
         IN  [thrown |-> None,
              value |-> Some([slides |-> updatedSlides,
                              originalContent |-> pres.originalContent])]

\* updatePresentationSlide(presentation, slideIndex, newContent) for an integer
\* slideIndex: the thrown Error's message, or the returned presentation
UpdatePresentationSlide(pres, index, content) ==
    IF index < 0 \/ index >= Len(pres.slides)
    THEN [thrown |-> Some("Invalid slide index"), value |-> None]
    ELSE LET slide == pres.slides[index + 1]
             updatedSlides ==
                 [pres.slides EXCEPT ![index + 1] =
                     [slide EXCEPT !.location.content = content,
                                   !.title = ExtractSlideTitle(content)]]
         IN  [thrown |-> None,
              value |-> Some([slides |-> updatedSlides,
                              originalContent |->
                                  SerializePresentationToMarkdown([slides |-> updatedSlides])])]

-----------------------------------------------------------------------------
(* src/utils/markdown-parser.test.ts: parseBashCommands *)

BACKSLASH == "\\"

\* String.prototype.endsWith
EndsWith(s, p) == Len(s) >= Len(p) /\ SubSeq(s, Len(s) - Len(p) + 1, Len(s)) = p

\* commands.push({command: currentCommand.trim(),
\*                description: currentDescription || undefined,
\*                line: commandStartLine + 1})
PushCommand(st) ==
    Append(st.commands,
           [command |-> Trim(st.currentCommand),
            description |-> IF st.currentDescription # <<>>
                            THEN Some(st.currentDescription) ELSE None,
            line |-> st.commandStartLine + 1])

\* the body of the for loop for the line rawLine at index index
BashLineStep(st, rawLine, index) ==
    LET line == Trim(rawLine)
        endsWithBackslash == EndsWith(TrimEnd(rawLine), <<BACKSLASH>>)
        isPipeContinuation ==
            \/ StartsWith(line, <<"|">>)
            \/ StartsWith(line, <<"&", "&">>)
            \/ StartsWith(line, <<"|", "|">>)
        previousLineEndsWithOperator ==
            /\ st.currentCommand # <<>>
            /\ \/ EndsWith(Trim(st.currentCommand), <<"|">>)
               \/ EndsWith(Trim(st.currentCommand), <<"&", "&">>)
               \/ EndsWith(Trim(st.currentCommand), <<"|", "|">>)
               \/ EndsWith(Trim(st.currentCommand), <<";">>)
    IN  IF line = <<>>
        THEN IF st.currentCommand # <<>> /\ ~st.inBackslashContinuation
             THEN [st EXCEPT !.commands = PushCommand(st),
                             !.currentCommand = <<>>,
                             !.currentDescription = <<>>]
             ELSE st
        ELSE IF StartsWith(line, <<HASH>>)
        THEN IF st.currentCommand = <<>>
             THEN [st EXCEPT !.currentDescription = Trim(Tail(line))]
             ELSE st
        ELSE IF endsWithBackslash \/ st.inBackslashContinuation
        THEN LET start == IF st.currentCommand = <<>> THEN index ELSE st.commandStartLine
                 sep == IF st.currentCommand # <<>> THEN <<SP>> ELSE <<>>
                 trimmed == TrimEnd(rawLine)
                 content == Trim(SubSeq(trimmed, 1, Len(trimmed) - 1))
             IN  IF endsWithBackslash
                 THEN [st EXCEPT !.commandStartLine = start,
                                 !.currentCommand = st.currentCommand \o sep \o content,
                                 !.inBackslashContinuation = TRUE]
                 ELSE [st EXCEPT !.commandStartLine = start,
                                 !.currentCommand = st.currentCommand \o sep \o line,
                                 !.inBackslashContinuation = FALSE]
        ELSE IF st.currentCommand # <<>> /\ (isPipeContinuation \/ previousLineEndsWithOperator)
        THEN [st EXCEPT !.currentCommand =
                 st.currentCommand
                     \o (IF EndsWith(st.currentCommand, <<SP>>) THEN <<>> ELSE <<SP>>)
                     \o line]
        ELSE IF st.currentCommand # <<>>
        THEN [st EXCEPT !.commands = PushCommand(st),
                        !.currentDescription = <<>>,
                        !.commandStartLine = index,
                        !.currentCommand = line]
        ELSE [st EXCEPT !.commandStartLine = index,
                        !.currentCommand = line]

\* the push of the last command and commands.filter(cmd => cmd.command.length > 0)
BashFinish(st) ==
    LET all == IF st.currentCommand # <<>> THEN PushCommand(st) ELSE st.commands
        NonEmpty(cmd) == Len(cmd.command) > 0
    IN  FilterSeq(NonEmpty, all)

-----------------------------------------------------------------------------
(* diffSummary.ts: hasChanges, formatDiffSummary *)

\* hasChanges without its test of summary.moved
HasChangesNoMoved(diff) ==
    \/ diff.summary.added > 0
    \/ diff.summary.removed > 0
    \/ diff.summary.modified > 0

HasChanges(diff) ==
    \/ diff.summary.added > 0
    \/ diff.summary.removed > 0
    \/ diff.summary.modified > 0
    \/ diff.summary.moved > 0

\* the string 'No changes'
NoChanges == <<"N", "o", SP, "c", "h", "a", "n", "g", "e", "s">>

\* parts.join(', ')
RECURSIVE JoinComma(_)
JoinComma(parts) ==
    IF parts = <<>> THEN <<>>
    ELSE IF Len(parts) = 1 THEN parts[1]
    ELSE parts[1] \o <<",", SP>> \o JoinComma(Tail(parts))

\* formatDiffSummary(summary): a part "<count> <status>" for each positive counter
\* of added, removed, modified, moved, in that order
FormatDiffSummary(sum) ==
    LET Part(count, word) == IF count > 0 THEN <<ToRadix(count, 10) \o <<SP>> \o word>> ELSE <<>>
        parts == Part(sum.added, <<"a", "d", "d", "e", "d">>)
                 \o Part(sum.removed, <<"r", "e", "m", "o", "v", "e", "d">>)
                 \o Part(sum.modified, <<"m", "o", "d", "i", "f", "i", "e", "d">>)
                 \o Part(sum.moved, <<"m", "o", "v", "e", "d">>)
    IN  IF Len(parts) = 0 THEN NoChanges ELSE JoinComma(parts)

-----------------------------------------------------------------------------
(* The inputs of the checked instances *)

\* the characters of the texts handed to diffText
TextAlphabet == {"a", "b", NL}

\* the slides of the presentations handed to diffPresentations: "a " has the
\* normalized title of "A" and "x " the normalized content of "x"
Slide(id, title, content) ==
    [id |-> id, title |-> title,
     location |-> [startLine |-> 0, endLine |-> Len(Split(content)) - 1, content |-> content]]

SlidePool ==
    { Slide(<<"1">>, <<"A">>, <<"x">>),
      Slide(<<"2">>, <<"a", SP>>, <<"x", SP>>),
      Slide(<<"3">>, <<"B">>, <<"x">>),
      Slide(<<"4">>, <<"A">>, <<"x", NL, "y">>) }

\* a presentation that holds the given slides
PresentationOf(slides) ==
    [slides |-> slides,
     originalContent |-> SerializePresentationToMarkdown([slides |-> slides])]

\* the lines of the markdown documents handed to parseMarkdownIntoPresentation
MdLinePool ==
    { <<HASH, SP, "a">>, <<SP, HASH, SP, "a">>, <<HASH, SP, "b">>, <<"a">>, <<>>,
      <<BACKTICK, BACKTICK, BACKTICK>> }

\* the documents of one to MaxMdLines lines of the pool
MarkdownDocs ==
    {Join(ls) : ls \in UNION {[1..n -> MdLinePool] : n \in 1..MaxMdLines}}

IdleText ==
    /\ beforeContent = <<>> /\ afterContent = <<>>
    /\ beforeLines = <<>> /\ afterLines = <<>> /\ lcs = <<>>
    /\ i = 0 /\ j = 0 /\ result = <<>> /\ tpc = "idle"

IdleDiff ==
    /\ markdownBefore = <<>> /\ markdownAfter = <<>>
    /\ before = [slides |-> <<>>, originalContent |-> <<>>]
    /\ after = [slides |-> <<>>, originalContent |-> <<>>]
    /\ matches = <<>> /\ matchedBeforeIndices = {} /\ matchedAfterIndices = {}
    /\ unmatchedBeforeIndices = <<>> /\ unmatchedAfterIndices = <<>> /\ idx = 0
    /\ slideDiffs = <<>> /\ summary = EmptySummary /\ pc = "idle"

IdleReport == changed = FALSE /\ summaryText = <<>>

IdleNorm ==
    /\ argText1 = <<>> /\ argText2 = <<>> /\ norm1 = <<>> /\ norm2 = <<>> /\ norm11 = <<>>
    /\ equals = FALSE /\ npc = "idle"

IdleBash ==
    /\ codeString = <<>> /\ bashLines = <<>> /\ commands = <<>>
    /\ currentCommand = <<>> /\ commandStartLine = 0 /\ currentDescription = <<>>
    /\ inBackslashContinuation = FALSE /\ lineIdx = 0 /\ bpc = "idle"

IdlePres ==
    /\ argMarkdown = <<>>
    /\ argPresentation = [slides |-> <<>>, originalContent |-> <<>>]
    /\ slideIndex = 0 /\ newContent = <<>>
    /\ updated = <<>> /\ thrown = <<>> /\ ppc = "idle"

-----------------------------------------------------------------------------
(* diffText as a process: the call, each iteration of the backtracking loop, the return *)

\* diffText up to the loop of buildDiffFromLCS, or its early return for two empty texts
DiffTextCall ==
    /\ tpc = "call"
    /\ IF beforeContent = <<>> /\ afterContent = <<>>
       THEN /\ tpc' = "done"
            /\ UNCHANGED <<beforeLines, afterLines, lcs, i, j, result>>
       ELSE /\ beforeLines' = SplitLines(beforeContent)
            /\ afterLines' = SplitLines(afterContent)
            /\ lcs' = LongestCommonSubsequence(beforeLines', afterLines')
            /\ i' = Len(beforeLines')
            /\ j' = Len(afterLines')
            /\ result' = <<>>
            /\ tpc' = "loop"
    /\ UNCHANGED <<beforeContent, afterContent, diffVars, utilVars>>

\* one iteration of the loop whose second branch needs the greater cell
BacktrackIterNoTie ==
    /\ tpc = "loop"
    /\ i > 0 \/ j > 0
    /\ LET st == BacktrackStepNoTie(beforeLines, afterLines, lcs, [i |-> i, j |-> j, result |-> result])
       IN  /\ i' = st.i
           /\ j' = st.j
           /\ result' = st.result
    /\ UNCHANGED <<beforeContent, afterContent, beforeLines, afterLines, lcs, tpc, diffVars, utilVars>>

\* one iteration of while (i > 0 || j > 0)
BacktrackIter ==
    /\ tpc = "loop"
    /\ i > 0 \/ j > 0
    /\ LET st == BacktrackStep(beforeLines, afterLines, lcs, [i |-> i, j |-> j, result |-> result])
       IN  /\ i' = st.i
           /\ j' = st.j
           /\ result' = st.result
    /\ UNCHANGED <<beforeContent, afterContent, beforeLines, afterLines, lcs, tpc, diffVars, utilVars>>

\* the loop exit and the renumbering map
BuildDiffReturn ==
    /\ tpc = "loop"
    /\ ~(i > 0 \/ j > 0)
    /\ result' = Renumber(result)
    /\ tpc' = "done"
    /\ UNCHANGED <<beforeContent, afterContent, beforeLines, afterLines, lcs, i, j, diffVars, utilVars>>

InitText ==
    /\ beforeContent \in StringsUpTo(TextAlphabet, MaxLen)
    /\ afterContent \in StringsUpTo(TextAlphabet, MaxLen)
    /\ beforeLines = <<>> /\ afterLines = <<>> /\ lcs = <<>>
    /\ i = 0 /\ j = 0 /\ result = <<>> /\ tpc = "call"
    /\ IdleDiff /\ IdleReport /\ IdleBash /\ IdleNorm /\ IdlePres

NextText == DiffTextCall \/ BacktrackIter \/ BuildDiffReturn

SpecText == InitText /\ [][NextText]_vars

-----------------------------------------------------------------------------
(* diffPresentations as a process: phases 1 and 2 of matchSlides one loop iteration *)
(* at a time, phase 3, the sort, the map over createSlideDiff, calculateDiffSummary *)

\* one iteration of the outer loop of phase 1, its inner scan included
Phase1Iter ==
    /\ pc = "phase1"
    /\ idx < Len(before.slides)
    /\ LET found == TitleMatchIndex(before.slides[idx + 1], after.slides, matchedAfterIndices)
       IN  IF IsSome(found)
           THEN /\ matches' = Append(matches,
                        PairMatch(before.slides, after.slides, idx, found[1], "title"))
                /\ matchedBeforeIndices' = matchedBeforeIndices \cup {idx}
                /\ matchedAfterIndices' = matchedAfterIndices \cup {found[1]}
           ELSE UNCHANGED <<matches, matchedBeforeIndices, matchedAfterIndices>>
    /\ idx' = idx + 1
    /\ UNCHANGED <<textVars, utilVars, inputVars, unmatchedBeforeIndices, unmatchedAfterIndices,
                   slideDiffs, summary, pc>>

\* the end of phase 1 with both lists of unmatched indices left empty
Phase2StartNoLeftovers ==
    /\ pc = "phase1"
    /\ idx >= Len(before.slides)
    /\ unmatchedBeforeIndices' = <<>>
    /\ unmatchedAfterIndices' = <<>>
    /\ idx' = 0
    /\ pc' = "phase2"
    /\ UNCHANGED <<textVars, utilVars, inputVars, matches, matchedBeforeIndices, matchedAfterIndices,
                   slideDiffs, summary>>

\* the end of phase 1: the unmatched indices of both sides, ascending
Phase2Start ==
    /\ pc = "phase1"
    /\ idx >= Len(before.slides)
    /\ LET UnmatchedBefore(k) == k \notin matchedBeforeIndices
           UnmatchedAfter(k) == k \notin matchedAfterIndices
       IN  /\ unmatchedBeforeIndices' = FilterIndices(UnmatchedBefore, 0, Len(before.slides))
           /\ unmatchedAfterIndices' = FilterIndices(UnmatchedAfter, 0, Len(after.slides))
    /\ idx' = 0
    /\ pc' = "phase2"
    /\ UNCHANGED <<textVars, utilVars, inputVars, matches, matchedBeforeIndices, matchedAfterIndices,
                   slideDiffs, summary>>

\* an iteration of phase 2 that pairs the unmatched before-indices in ascending
\* order with the unmatched after-indices in descending order
Phase2IterReversed ==
    /\ pc = "phase2"
    /\ idx < Min(Len(unmatchedBeforeIndices), Len(unmatchedAfterIndices))
    /\ LET beforeIndex == unmatchedBeforeIndices[idx + 1]
           afterIndex == unmatchedAfterIndices[
                             Min(Len(unmatchedBeforeIndices), Len(unmatchedAfterIndices)) - idx]
       IN  /\ matches' = Append(matches,
                   PairMatch(before.slides, after.slides, beforeIndex, afterIndex, "position"))
           /\ matchedBeforeIndices' = matchedBeforeIndices \cup {beforeIndex}
           /\ matchedAfterIndices' = matchedAfterIndices \cup {afterIndex}
    /\ idx' = idx + 1
    /\ UNCHANGED <<textVars, utilVars, inputVars, unmatchedBeforeIndices, unmatchedAfterIndices,
                   slideDiffs, summary, pc>>

\* one iteration of the loop of phase 2
Phase2Iter ==
    /\ pc = "phase2"
    /\ idx < Min(Len(unmatchedBeforeIndices), Len(unmatchedAfterIndices))
    /\ LET beforeIndex == unmatchedBeforeIndices[idx + 1]
           afterIndex == unmatchedAfterIndices[idx + 1]
       IN  /\ matches' = Append(matches,
                   PairMatch(before.slides, after.slides, beforeIndex, afterIndex, "position"))
           /\ matchedBeforeIndices' = matchedBeforeIndices \cup {beforeIndex}
           /\ matchedAfterIndices' = matchedAfterIndices \cup {afterIndex}
    /\ idx' = idx + 1
    /\ UNCHANGED <<textVars, utilVars, inputVars, unmatchedBeforeIndices, unmatchedAfterIndices,
                   slideDiffs, summary, pc>>

\* the end of phase 2 and the two loops of phase 3
Phase3 ==
    /\ pc = "phase2"
    /\ idx >= Min(Len(unmatchedBeforeIndices), Len(unmatchedAfterIndices))
    /\ matches' = Phase3Added(Phase3Removed(matches, before.slides, matchedBeforeIndices),
                              after.slides, matchedAfterIndices)
    /\ pc' = "sort"
    /\ UNCHANGED <<textVars, utilVars, inputVars, matchedBeforeIndices, matchedAfterIndices,
                   unmatchedBeforeIndices, unmatchedAfterIndices, idx, slideDiffs, summary>>

\* the final sort and the return of matchSlides
MatchSlidesReturn ==
    /\ pc = "sort"
    /\ matches' = SortMatches(matches)
    /\ pc' = "matched"
    /\ UNCHANGED <<textVars, utilVars, inputVars, matchedBeforeIndices, matchedAfterIndices,
                   unmatchedBeforeIndices, unmatchedAfterIndices, idx, slideDiffs, summary>>

\* matches.map(match => createSlideDiff(match)) and the diff with its zero summary
Classify ==
    /\ pc = "matched"
    /\ slideDiffs' = MapSeq(CreateSlideDiff, matches)
    /\ summary' = EmptySummary
    /\ pc' = "classified"
    /\ UNCHANGED <<textVars, utilVars, inputVars, matchVars>>

\* presentationDiff.summary = calculateDiffSummary(presentationDiff) and the return
Summarize ==
    /\ pc = "classified"
    /\ summary' = CalculateDiffSummary(
                      [before |-> before, after |-> after,
                       slideDiffs |-> slideDiffs, summary |-> summary])
    /\ pc' = "done"
    /\ UNCHANGED <<textVars, utilVars, inputVars, matchVars, slideDiffs>>

\* the caller asking hasChanges(diff) and formatDiffSummary(diff.summary) of the
\* returned diff
Report ==
    /\ pc = "done"
    /\ changed' = HasChanges([before |-> before, after |-> after,
                              slideDiffs |-> slideDiffs, summary |-> summary])
    /\ summaryText' = FormatDiffSummary(summary)
    /\ pc' = "reported"
    /\ UNCHANGED <<textVars, bashVars, normVars, presVars, inputVars, matchVars, slideDiffs, summary>>

NextDiff ==
    \/ Phase1Iter \/ Phase2Start \/ Phase2Iter \/ Phase3 \/ MatchSlidesReturn
    \/ Classify \/ Summarize

\* diffPresentations called with two presentations of slides of the pool
InitMatch ==
    /\ IdleText /\ IdleReport /\ IdleBash /\ IdleNorm /\ IdlePres
    /\ markdownBefore = <<>> /\ markdownAfter = <<>>
    /\ before \in {PresentationOf(ss) : ss \in StringsUpTo(SlidePool, MaxSlides)}
    /\ after \in {PresentationOf(ss) : ss \in StringsUpTo(SlidePool, MaxSlides)}
    /\ matches = <<>> /\ matchedBeforeIndices = {} /\ matchedAfterIndices = {}
    /\ unmatchedBeforeIndices = <<>> /\ unmatchedAfterIndices = <<>> /\ idx = 0
    /\ slideDiffs = <<>> /\ summary = EmptySummary /\ pc = "phase1"

SpecMatch == InitMatch /\ [][NextDiff]_vars

\* the two documents parsed, as in the tests of diffPresentations
ParseInputs ==
    /\ pc = "parse"
    /\ before' = ParseMarkdownIntoPresentation(markdownBefore)
    /\ after' = ParseMarkdownIntoPresentation(markdownAfter)
    /\ pc' = "phase1"
    /\ UNCHANGED <<textVars, utilVars, markdownBefore, markdownAfter, matchVars, slideDiffs, summary>>

\* diffPresentations called with the presentations parsed from two documents
InitParse ==
    /\ IdleText /\ IdleReport /\ IdleBash /\ IdleNorm /\ IdlePres
    /\ markdownBefore \in MarkdownDocs
    /\ markdownAfter \in MarkdownDocs
    /\ before = [slides |-> <<>>, originalContent |-> <<>>]
    /\ after = [slides |-> <<>>, originalContent |-> <<>>]
    /\ matches = <<>> /\ matchedBeforeIndices = {} /\ matchedAfterIndices = {}
    /\ unmatchedBeforeIndices = <<>> /\ unmatchedAfterIndices = <<>> /\ idx = 0
    /\ slideDiffs = <<>> /\ summary = EmptySummary /\ pc = "parse"

NextParse == ParseInputs \/ NextDiff \/ Report

SpecParse == InitParse /\ [][NextParse]_vars

\* the characters of the texts handed to normalizedTextEquals
NormalizeAlphabet == {"a", SP, NL, CR}

\* normalizedTextEquals(argText1, argText2)
NormalizedTextEqualsCall ==
    /\ npc = "call"
    /\ norm1' = NormalizeText(argText1)
    /\ norm2' = NormalizeText(argText2)
    /\ equals' = NormalizedTextEquals(argText1, argText2)
    /\ npc' = "compared"
    /\ UNCHANGED <<textVars, bashVars, diffVars, reportVars, presVars, argText1, argText2, norm11>>

\* normalizeText applied to the text it returned for argText1
NormalizeAgain ==
    /\ npc = "compared"
    /\ norm11' = NormalizeText(norm1)
    /\ npc' = "done"
    /\ UNCHANGED <<textVars, bashVars, diffVars, reportVars, presVars, argText1, argText2,
                   norm1, norm2, equals>>

InitNormalize ==
    /\ IdleText /\ IdleDiff /\ IdleReport /\ IdleBash /\ IdlePres
    /\ argText1 \in StringsUpTo(NormalizeAlphabet, MaxTextLen)
    /\ argText2 \in StringsUpTo(NormalizeAlphabet, MaxTextLen)
    /\ norm1 = <<>> /\ norm2 = <<>> /\ norm11 = <<>> /\ equals = FALSE /\ npc = "call"

NextNormalize == NormalizedTextEqualsCall \/ NormalizeAgain

SpecNormalize == InitNormalize /\ [][NextNormalize]_vars

\* the lines of the markdown documents parsed on their own: headings of level 1,
\* 2 and 3, an indented heading without a space, the two fences, a text line
DocLinePool ==
    { <<HASH, SP, "a">>, <<HASH, HASH, SP, "b">>, <<HASH, HASH, HASH, SP, "a">>,
      <<SP, HASH, "b">>, <<BACKTICK, BACKTICK, BACKTICK>>, <<"~", "~", "~">>, <<"x">> }

\* the documents of no line (the empty string) to MaxDocLines lines of the pool
Docs == {Join(ls) : ls \in StringsUpTo(DocLinePool, MaxDocLines)}

\* the contents handed to updatePresentationSlide
NewContents == {<<HASH, SP, "b">>, <<"x">>}

\* parseMarkdownIntoPresentation(argMarkdown)
ParseCall ==
    /\ ppc = "parse"
    /\ argPresentation' = ParseMarkdownIntoPresentation(argMarkdown)
    /\ ppc' = "parsed"
    /\ UNCHANGED <<textVars, bashVars, diffVars, reportVars, normVars,
                   argMarkdown, slideIndex, newContent, updated, thrown>>

\* updatePresentationSlide(argPresentation, slideIndex, newContent) with an index
\* from two below the first slide to beyond the last
UpdateCall ==
    /\ ppc \in {"parsed", "built", "adopted"}
    /\ \E index \in (-2)..(MaxDocLines + 1), content \in NewContents :
           LET r == UpdatePresentationSlide(argPresentation, index, content)
           IN  /\ slideIndex' = index
               /\ newContent' = content
               /\ updated' = r.value
               /\ thrown' = r.thrown
    /\ ppc' = "updated"
    /\ UNCHANGED <<textVars, bashVars, diffVars, reportVars, normVars, argMarkdown, argPresentation>>

\* a document about to be parsed, or a presentation built with no slides
InitPresentation ==
    /\ IdleText /\ IdleDiff /\ IdleReport /\ IdleBash /\ IdleNorm
    /\ \/ argMarkdown \in Docs /\ ppc = "parse"
       \/ argMarkdown = <<>> /\ ppc = "built"
    /\ argPresentation = [slides |-> <<>>, originalContent |-> <<>>]
    /\ slideIndex = 0 /\ newContent = <<>> /\ updated = <<>> /\ thrown = <<>>

NextPresentation == ParseCall \/ UpdateCall

\* the presentation returned by a successful updatePresentationSlide becomes the
\* argument of the next call
AdoptUpdated ==
    /\ ppc = "updated"
    /\ IsSome(updated)
    /\ argPresentation' = updated[1]
    /\ ppc' = "adopted"
    /\ UNCHANGED <<textVars, bashVars, diffVars, reportVars, normVars,
                   argMarkdown, slideIndex, newContent, updated, thrown>>

\* a document of the markdown pool about to be parsed and then updated any number
\* of times
InitUpdates ==
    /\ IdleText /\ IdleDiff /\ IdleReport /\ IdleBash /\ IdleNorm
    /\ argMarkdown \in MarkdownDocs \cup {<<>>}
    /\ ppc = "parse"
    /\ argPresentation = [slides |-> <<>>, originalContent |-> <<>>]
    /\ slideIndex = 0 /\ newContent = <<>> /\ updated = <<>> /\ thrown = <<>>

NextUpdates == ParseCall \/ UpdateCall \/ AdoptUpdated

SpecUpdates == InitUpdates /\ [][NextUpdates]_vars

SpecPresentation == InitPresentation /\ [][NextPresentation]_vars

\* the slides of the presentations that exercise the pairing policies: two titles
\* of one normalized title and a third title, each with its own content
PairingPool ==
    { Slide(<<"1">>, <<"A">>, <<"x">>),
      Slide(<<"2">>, <<"a", SP>>, <<"x", SP>>),
      Slide(<<"3">>, <<"B">>, <<"y">>) }

\* diffPresentations called with two presentations of slides of the pairing pool
InitPairing ==
    /\ IdleText /\ IdleReport /\ IdleBash /\ IdleNorm /\ IdlePres
    /\ markdownBefore = <<>> /\ markdownAfter = <<>>
    /\ before \in {PresentationOf(ss) : ss \in StringsUpTo(PairingPool, MaxSlides)}
    /\ after \in {PresentationOf(ss) : ss \in StringsUpTo(PairingPool, MaxSlides)}
    /\ matches = <<>> /\ matchedBeforeIndices = {} /\ matchedAfterIndices = {}
    /\ unmatchedBeforeIndices = <<>> /\ unmatchedAfterIndices = <<>> /\ idx = 0
    /\ slideDiffs = <<>> /\ summary = EmptySummary /\ pc = "phase1"

SpecPairing == InitPairing /\ [][NextDiff]_vars

\* the slides of the reordered presentations: the pool and a slide of a third title
PermutationPool == SlidePool \cup {Slide(<<"5">>, <<"C">>, <<"y">>)}

\* the reorderings of a slide list
Reorderings(slides) ==
    LET n == Len(slides)
    IN  {[k \in 1..n |-> slides[f[k]]] :
            f \in {g \in [1..n -> 1..n] : \A a, b \in 1..n : g[a] = g[b] => a = b}}

\* a slide list and the lists that replace its last slide by a slide of the pool
Replacements(slides) ==
    {slides} \cup {[slides EXCEPT ![k] = slide] : k \in {Len(slides)} \ {0}, slide \in PermutationPool}

\* diffPresentations called with a presentation and a reordering of its slides, one
\* of which may have been replaced
InitPermutation ==
    /\ IdleText /\ IdleReport /\ IdleBash /\ IdleNorm /\ IdlePres
    /\ markdownBefore = <<>> /\ markdownAfter = <<>>
    /\ \E ss \in StringsUpTo(PermutationPool, MaxSlides) :
           /\ before = PresentationOf(ss)
           /\ after \in {PresentationOf(ps) : ps \in UNION {Reorderings(ts) : ts \in Replacements(ss)}}
    /\ matches = <<>> /\ matchedBeforeIndices = {} /\ matchedAfterIndices = {}
    /\ unmatchedBeforeIndices = <<>> /\ unmatchedAfterIndices = <<>> /\ idx = 0
    /\ slideDiffs = <<>> /\ summary = EmptySummary /\ pc = "phase1"

SpecPermutation == InitPermutation /\ [][NextDiff]_vars

-----------------------------------------------------------------------------
(* Properties of diffText *)

RECURSIVE IsSubsequence(_, _)
IsSubsequence(s, t) ==
    IF s = <<>> THEN TRUE
    ELSE IF t = <<>> THEN FALSE
    ELSE IF s[1] = t[1] THEN IsSubsequence(Tail(s), Tail(t))
    ELSE IsSubsequence(s, Tail(t))

\* the subsequence of s at the positions in ks
RECURSIVE Pick(_, _, _)
Pick(s, ks, k) ==
    IF k > Len(s) THEN <<>>
    ELSE (IF k \in ks THEN <<s[k]>> ELSE <<>>) \o Pick(s, ks, k + 1)

\* the length of a longest common subsequence, from its definition
LcsLength(s, t) ==
    LET common == {ks \in SUBSET (1..Len(s)) : IsSubsequence(Pick(s, ks, 1), t)}
    IN  CHOOSE n \in 0..Len(s) :
            /\ \E ks \in common : Cardinality(ks) = n
            /\ \A ks \in common : Cardinality(ks) <= n

OfTypes(res, types) == {k \in 1..Len(res) : res[k].type \in types}

ValuesOfTypes(res, types) ==
    LET IsOfTypes(e) == e.type \in types
        Value(e) == e.value
    IN  MapSeq(Value, FilterSeq(IsOfTypes, res))

\* C4: the 'unchanged' entries of diffText(before, after) number the length of a
\* longest common subsequence of the two line arrays, and the script has
\* m + n - LCS entries
C4_LcsOptimal ==
    tpc = "done" =>
        LET bl == IF beforeContent = <<>> THEN <<>> ELSE Split(beforeContent)
            al == IF afterContent = <<>> THEN <<>> ELSE Split(afterContent)
            n == LcsLength(bl, al)
        IN  /\ Cardinality(OfTypes(result, {"unchanged"})) = n
            /\ Len(result) = Len(bl) + Len(al) - n

\* a diff of two different texts of two or more lines each with one common
\* line, one added and one removed
C4_Witness ==
    /\ tpc = "done"
    /\ Len(beforeLines) >= 2 /\ Len(afterLines) >= 2
    /\ beforeLines # afterLines
    /\ Cardinality(OfTypes(result, {"unchanged"})) = 1
    /\ Cardinality(OfTypes(result, {"add"})) >= 1
    /\ Cardinality(OfTypes(result, {"remove"})) >= 1

\* C5: the 'unchanged' and 'remove' values, in output order, are the lines of
\* before, the 'unchanged' and 'add' values the lines of after, '' having no line;
\* so diffText('', '') = [], diffText('', a) only adds, diffText(b, '') only removes
C5_FaithfulScript ==
    tpc = "done" =>
        LET bl == IF beforeContent = <<>> THEN <<>> ELSE Split(beforeContent)
            al == IF afterContent = <<>> THEN <<>> ELSE Split(afterContent)
        IN  /\ ValuesOfTypes(result, {"unchanged", "remove"}) = bl
            /\ ValuesOfTypes(result, {"unchanged", "add"}) = al
            /\ \A k \in 1..Len(result) : result[k].type \in {"unchanged", "add", "remove"}
            /\ (beforeContent = <<>> /\ afterContent = <<>>) => result = <<>>
            /\ beforeContent = <<>> => OfTypes(result, {"add"}) = 1..Len(result)
            /\ afterContent = <<>> => OfTypes(result, {"remove"}) = 1..Len(result)

\* a diff against the empty text, and a diff with all three entry types
C5_Witness ==
    /\ tpc = "done"
    /\ \/ beforeContent = <<>> /\ Len(result) >= 2
       \/ /\ OfTypes(result, {"unchanged"}) # {}
          /\ OfTypes(result, {"add"}) # {}
          /\ OfTypes(result, {"remove"}) # {}

\* C16: the lineNumber values of a diffText result of length k are 1, 2, ..., k in
\* output order
C16_LineNumbers ==
    tpc = "done" => \A k \in 1..Len(result) : result[k].lineNumber = k

\* a result longer than both inputs that ends with an added line: its lineNumber
\* is its place in the output, beyond the last line of either input
C16_Witness ==
    /\ tpc = "done"
    /\ Len(result) > Len(beforeLines) /\ Len(result) > Len(afterLines)
    /\ Len(beforeLines) >= 2
    /\ result[Len(result)].type = "add"
    /\ result[Len(result)].lineNumber = Len(result)

-----------------------------------------------------------------------------
(* Properties of matchSlides and diffPresentations *)

MatchSlidesReturned == pc \in {"matched", "classified", "done", "reported"}

Classified == pc \in {"classified", "done", "reported"}

BeforeIndexSet == 0..(Len(before.slides) - 1)

AfterIndexSet == 0..(Len(after.slides) - 1)

\* the correspondences that claim a before-index, an after-index
ClaimingBefore(b) == {k \in 1..Len(matches) : matches[k].beforeIndex = Some(b)}

ClaimingAfter(a) == {k \in 1..Len(matches) : matches[k].afterIndex = Some(a)}

MatchedByKinds == {matches[k].matchedBy : k \in 1..Len(matches)}

Statuses == {slideDiffs[k].status : k \in 1..Len(slideDiffs)}

\* C1: at every step of matchSlides no index is claimed by two correspondences, and
\* in its result every before-index and every after-index is the beforeIndex,
\* afterIndex of exactly one correspondence
C1_Partition ==
    /\ \A b \in BeforeIndexSet : Cardinality(ClaimingBefore(b)) <= 1
    /\ \A a \in AfterIndexSet : Cardinality(ClaimingAfter(a)) <= 1
    /\ \A k \in 1..Len(matches) :
           /\ IsSome(matches[k].beforeIndex) => matches[k].beforeIndex[1] \in BeforeIndexSet
           /\ IsSome(matches[k].afterIndex) => matches[k].afterIndex[1] \in AfterIndexSet
    /\ MatchSlidesReturned =>
           /\ \A b \in BeforeIndexSet : Cardinality(ClaimingBefore(b)) = 1
           /\ \A a \in AfterIndexSet : Cardinality(ClaimingAfter(a)) = 1

\* a result with a title match, a position match and a residue entry, the after
\* side holding two slides of one normalized title
C1_Witness ==
    /\ pc = "matched"
    /\ MatchedByKinds = {"title", "position", "none"}
    /\ \E a1, a2 \in AfterIndexSet :
           /\ a1 # a2
           /\ NormalizeTitleForMatching(after.slides[a1 + 1].title)
                  = NormalizeTitleForMatching(after.slides[a2 + 1].title)

\* the status the decision table gives a correspondence: from the presence of the
\* two slides, the equality of their normalized contents and of their indices
TableStatus(m) ==
    IF ~IsSome(m.beforeSlide) /\ IsSome(m.afterSlide) THEN "added"
    ELSE IF IsSome(m.beforeSlide) /\ ~IsSome(m.afterSlide) THEN "removed"
    ELSE IF NormalizeText(m.beforeSlide[1].location.content)
                # NormalizeText(m.afterSlide[1].location.content) THEN "modified"
    ELSE IF m.beforeIndex # m.afterIndex THEN "moved"
    ELSE "unchanged"

\* C2: createSlideDiff gives every correspondence the one status of the decision
\* table, which reads neither titles nor ids nor matchedBy
C2_DecisionTable ==
    Classified =>
        /\ Len(slideDiffs) = Len(matches)
        /\ \A k \in 1..Len(slideDiffs) : slideDiffs[k].status = TableStatus(matches[k])

\* a slide moved under another title, matched by position, beside a slide
\* modified under its own title
C2_Witness ==
    /\ pc = "done"
    /\ \E k \in 1..Len(slideDiffs) :
           /\ slideDiffs[k].status = "moved"
           /\ matches[k].matchedBy = "position"
           /\ slideDiffs[k].beforeSlide[1].location.content
                  # slideDiffs[k].afterSlide[1].location.content
    /\ \E k \in 1..Len(slideDiffs) :
           /\ slideDiffs[k].status = "modified"
           /\ matches[k].matchedBy = "title"

WithStatus(status) == {k \in 1..Len(slideDiffs) : slideDiffs[k].status = status}

\* C3: in a returned diff each of the five counters is the number of slideDiffs
\* of its status, and the five add up to slideDiffs.length
C3_SummaryCounts ==
    pc = "done" =>
        /\ summary.added = Cardinality(WithStatus("added"))
        /\ summary.removed = Cardinality(WithStatus("removed"))
        /\ summary.modified = Cardinality(WithStatus("modified"))
        /\ summary.unchanged = Cardinality(WithStatus("unchanged"))
        /\ summary.moved = Cardinality(WithStatus("moved"))
        /\ summary.added + summary.removed + summary.modified
               + summary.unchanged + summary.moved = Len(slideDiffs)

\* a returned diff with a moved, a modified and an added slide
C3_Witness ==
    /\ pc = "done"
    /\ summary.moved >= 1 /\ summary.modified >= 1 /\ summary.added >= 1

\* C6: every correspondence is well formed: 'title' or 'position' exactly with
\* both slides, 'none' exactly with one; an index exactly with its slide, which
\* is the slide at that index; never both slides absent, so that createSlideDiff
\* never takes its last branch
C6_WellFormed ==
    /\ \A k \in 1..Len(matches) :
           LET m == matches[k]
               both == IsSome(m.beforeSlide) /\ IsSome(m.afterSlide)
               one == IsSome(m.beforeSlide) # IsSome(m.afterSlide)
           IN  /\ m.matchedBy \in {"title", "position", "none"}
               /\ m.matchedBy \in {"title", "position"} <=> both
               /\ m.matchedBy = "none" <=> one
               /\ IsSome(m.beforeIndex) <=> IsSome(m.beforeSlide)
               /\ IsSome(m.afterIndex) <=> IsSome(m.afterSlide)
               /\ IsSome(m.beforeSlide) => m.beforeSlide[1] = before.slides[m.beforeIndex[1] + 1]
               /\ IsSome(m.afterSlide) => m.afterSlide[1] = after.slides[m.afterIndex[1] + 1]
    /\ \A k \in 1..Len(slideDiffs) :
           IsSome(slideDiffs[k].beforeSlide) \/ IsSome(slideDiffs[k].afterSlide)

\* a classified result with a pair of each kind and a removed-only entry
C6_Witness ==
    /\ pc = "classified"
    /\ MatchedByKinds = {"title", "position", "none"}
    /\ \E k \in 1..Len(matches) : ~IsSome(matches[k].afterSlide)

\* C7: a SlideDiff has contentChanges exactly when its status is 'modified', and
\* they are diffText of the two raw contents
C7_ContentChanges ==
    Classified =>
        \A k \in 1..Len(slideDiffs) :
            LET d == slideDiffs[k]
            IN  /\ IsSome(d.contentChanges) <=> d.status = "modified"
                /\ d.status = "modified" =>
                       d.contentChanges[1] = DiffText(d.beforeSlide[1].location.content,
                                                      d.afterSlide[1].location.content)

\* a modified slide whose raw content is not its normalized content, beside a
\* pair that is not modified
C7_Witness ==
    /\ pc = "done"
    /\ \E k \in 1..Len(slideDiffs) :
           /\ slideDiffs[k].status = "modified"
           /\ NormalizeSlideContent(slideDiffs[k].beforeSlide[1])
                  # slideDiffs[k].beforeSlide[1].location.content
           /\ \E n \in 1..Len(slideDiffs[k].contentChanges[1]) :
                  slideDiffs[k].contentChanges[1][n].type = "remove"
    /\ \E k \in 1..Len(slideDiffs) : slideDiffs[k].status \in {"unchanged", "moved"}

\* C8: with both slides present titleChanged is the exact inequality of the two
\* titles, whatever the status; for an added or removed slide it stays false
C8_TitleChanged ==
    Classified =>
        \A k \in 1..Len(slideDiffs) :
            LET d == slideDiffs[k]
            IN  IF IsSome(d.beforeSlide) /\ IsSome(d.afterSlide)
                THEN d.titleChanged = (d.beforeSlide[1].title # d.afterSlide[1].title)
                ELSE d.status \in {"added", "removed"} /\ d.titleChanged = FALSE

\* an unchanged slide whose title differs in case only, beside an added slide
C8_Witness ==
    /\ pc = "done"
    /\ \E k \in 1..Len(slideDiffs) :
           /\ slideDiffs[k].status = "unchanged"
           /\ slideDiffs[k].titleChanged
           /\ matches[k].matchedBy = "title"
    /\ \E k \in 1..Len(slideDiffs) : slideDiffs[k].status = "added"

SameTitleAndContent(s1, s2) ==
    s1.title = s2.title /\ s1.location.content = s2.location.content

\* the shorter slide list is a prefix of the longer one
OneIsPrefix ==
    \A k \in 1..Min(Len(before.slides), Len(after.slides)) :
        SameTitleAndContent(before.slides[k], after.slides[k])

\* C10: when the shorter slide list is a prefix of the longer, the slideDiffs are
\* 'unchanged' for the common slides in document order, then 'added' for each
\* further after-slide or 'removed' for each further before-slide, in order
C10_PrefixDiff ==
    (pc = "done" /\ OneIsPrefix) =>
        LET nb == Len(before.slides)
            na == Len(after.slides)
        IN  /\ Len(slideDiffs) = Max(nb, na)
            /\ \A k \in 1..Len(slideDiffs) :
                   LET d == slideDiffs[k]
                   IN  IF k <= Min(nb, na)
                       THEN /\ d.status = "unchanged"
                            /\ d.beforeIndex = Some(k - 1) /\ d.afterIndex = Some(k - 1)
                       ELSE IF na > nb
                       THEN d.status = "added" /\ d.afterIndex = Some(k - 1)
                       ELSE d.status = "removed" /\ d.beforeIndex = Some(k - 1)

\* a before list of two slides of one title and different contents, and an after
\* list that continues it
C10_Witness ==
    /\ pc = "done"
    /\ OneIsPrefix
    /\ Len(before.slides) >= 2
    /\ Len(after.slides) > Len(before.slides)
    /\ before.slides[1].title = before.slides[2].title
    /\ before.slides[1].location.content # before.slides[2].location.content
    /\ slideDiffs[Len(slideDiffs)].status = "added"

-----------------------------------------------------------------------------
(* Properties of diffPresentations on parsed presentations *)

\* C9 as stated: between two parsed presentations every SlideDiff with
\* titleChanged has status 'modified', none is 'unchanged' or 'moved'
C9_TitleChangeIsModified ==
    Classified =>
        \A k \in 1..Len(slideDiffs) :
            slideDiffs[k].titleChanged => slideDiffs[k].status = "modified"

\* C9 amended: between two parsed presentations every SlideDiff with titleChanged
\* pairs slides whose raw contents differ, and its status is 'modified' unless
\* the two contents are equal after normalizeText, when it is 'unchanged' or
\* 'moved'
C9_TitleChangeIsContentChange ==
    Classified =>
        \A k \in 1..Len(slideDiffs) :
            LET d == slideDiffs[k]
            IN  d.titleChanged =>
                    /\ IsSome(d.beforeSlide) /\ IsSome(d.afterSlide)
                    /\ d.beforeSlide[1].location.content # d.afterSlide[1].location.content
                    /\ d.status \in {"modified", "unchanged", "moved"}
                    /\ d.status = "modified" <=>
                           NormalizeText(d.beforeSlide[1].location.content)
                               # NormalizeText(d.afterSlide[1].location.content)

\* two parsed presentations of two slides each: one pair matched by title and
\* moved, the other matched by position and moved with its title changed, its
\* two contents differing in leading white space only
C9_Witness ==
    /\ pc = "done"
    /\ Len(before.slides) = 2 /\ Len(after.slides) = 2
    /\ \E k \in 1..Len(slideDiffs) :
           /\ slideDiffs[k].titleChanged /\ slideDiffs[k].status = "moved"
           /\ matches[k].matchedBy = "position"
    /\ \E k \in 1..Len(slideDiffs) :
           /\ ~slideDiffs[k].titleChanged /\ slideDiffs[k].status = "moved"
           /\ matches[k].matchedBy = "title"

-----------------------------------------------------------------------------
(* Properties of reordered presentations, of the summary and of its report *)

\* diffPresentations has returned
Returned == pc \in {"done", "reported"}

\* after.slides is a reordering of before.slides, title and content alike
IsPermutation ==
    /\ Len(before.slides) = Len(after.slides)
    /\ \E f \in [1..Len(before.slides) -> 1..Len(after.slides)] :
           /\ \A a, b \in 1..Len(before.slides) : f[a] = f[b] => a = b
           /\ \A a \in 1..Len(before.slides) :
                  SameTitleAndContent(before.slides[a], after.slides[f[a]])

\* no two slides of before share a normalized title
DistinctNormalizedTitles ==
    \A a, b \in 1..Len(before.slides) :
        NormalizeTitleForMatching(before.slides[a].title)
            = NormalizeTitleForMatching(before.slides[b].title) => a = b

\* C11: when after.slides is a reordering of before.slides and the normalized titles
\* are pairwise distinct, every before-slide is paired by title with its own copy in
\* after, the pair is moved when the two indices differ and unchanged when they are
\* equal, there is no other slideDiff, and added, removed and modified are 0
C11_Permutation ==
    (Returned /\ IsPermutation /\ DistinctNormalizedTitles) =>
        /\ Len(slideDiffs) = Len(before.slides)
        /\ \A b \in BeforeIndexSet :
               \E k \in 1..Len(slideDiffs) :
                   LET d == slideDiffs[k]
                   IN  /\ matches[k].matchedBy = "title"
                       /\ d.beforeIndex = Some(b)
                       /\ IsSome(d.afterIndex)
                       /\ SameTitleAndContent(before.slides[b + 1],
                                              after.slides[d.afterIndex[1] + 1])
                       /\ d.status = (IF d.afterIndex[1] # b THEN "moved" ELSE "unchanged")
        /\ summary.added = 0 /\ summary.removed = 0 /\ summary.modified = 0

\* three slides of distinct titles, two of them swapped: the diff has returned with two moved
\* slides and one slide that kept its index
C11_Witness ==
    /\ Returned /\ IsPermutation /\ DistinctNormalizedTitles
    /\ Len(before.slides) = 3
    /\ summary.moved = 2 /\ summary.unchanged = 1

\* C14: in a returned diff totalSlidesBefore is before.slides.length and is
\* removed + modified + unchanged + moved, and totalSlidesAfter is
\* after.slides.length and is added + modified + unchanged + moved
C14_Totals ==
    Returned =>
        /\ summary.totalSlidesBefore = Len(before.slides)
        /\ summary.totalSlidesBefore
               = summary.removed + summary.modified + summary.unchanged + summary.moved
        /\ summary.totalSlidesAfter = Len(after.slides)
        /\ summary.totalSlidesAfter
               = summary.added + summary.modified + summary.unchanged + summary.moved

\* a returned diff of three slides against two with a removed, a modified and a
\* moved slide
C14_Witness ==
    /\ Returned
    /\ Len(before.slides) = 3 /\ Len(after.slides) = 2
    /\ summary.removed = 1 /\ summary.modified = 1 /\ summary.moved = 1

\* C15: hasChanges(diff) is true exactly when added + removed + modified + moved is
\* positive, which for a returned diff is exactly when some slideDiff is not
\* unchanged, and formatDiffSummary(diff.summary) is 'No changes' exactly when
\* hasChanges(diff) is false
C15_HasChanges ==
    pc = "reported" =>
        /\ changed <=> summary.added + summary.removed + summary.modified + summary.moved > 0
        /\ changed <=> \E k \in 1..Len(slideDiffs) : slideDiffs[k].status # "unchanged"
        /\ summaryText = NoChanges <=> ~changed

\* a reported diff whose only changes are two moved slides
C15_Witness ==
    /\ pc = "reported"
    /\ changed
    /\ summary.added = 0 /\ summary.removed = 0 /\ summary.modified = 0
    /\ summaryText = <<"2", SP, "m", "o", "v", "e", "d">>

-----------------------------------------------------------------------------
(* The pairing policies of phases 1 and 2 of matchSlides *)

\* a title trimmed, its runs of white space collapsed to one space, lower-cased
TitleKey(title) == ToLowerCase(CollapseWhitespace(Trim(title)))

\* how many slides before this one in its list have its title key
RankAmong(slides, n) ==
    Cardinality({c \in 0..(n - 1) : TitleKey(slides[c + 1].title) = TitleKey(slides[n + 1].title)})

\* the pairs of a before-index and an after-index of one title key and one rank
TitlePairs ==
    {p \in BeforeIndexSet \X AfterIndexSet :
        /\ TitleKey(before.slides[p[1] + 1].title) = TitleKey(after.slides[p[2] + 1].title)
        /\ RankAmong(before.slides, p[1]) = RankAmong(after.slides, p[2])}

\* the pairs of indices recorded so far with a matchedBy
MatchedPairs(by) ==
    {<<matches[k].beforeIndex[1], matches[k].afterIndex[1]>> :
        k \in {n \in 1..Len(matches) : matches[n].matchedBy = by}}

PhaseOneOver == pc \in {"phase2", "sort", "matched", "classified", "done", "reported"}

PhaseTwoOver == pc \in {"sort", "matched", "classified", "done", "reported"}

RECURSIVE Ascending(_)
Ascending(S) ==
    IF S = {} THEN <<>>
    ELSE LET least == CHOOSE x \in S : \A y \in S : x <= y
         IN  <<least>> \o Ascending(S \ {least})

\* the before-indices, the after-indices that no title pair holds, ascending
LeftoverBefore == Ascending(BeforeIndexSet \ {p[1] : p \in MatchedPairs("title")})

LeftoverAfter == Ascending(AfterIndexSet \ {p[2] : p \in MatchedPairs("title")})

\* C20: while phase 2 runs, the correspondences matched by position are the pairs
\* of the k-th leftover before-index and the k-th leftover after-index for the k
\* processed so far; once it is over they are those pairs for every k up to the
\* smaller number of leftovers
C20_ByRank ==
    /\ pc = "phase2" =>
           MatchedPairs("position") = {<<LeftoverBefore[k], LeftoverAfter[k]>> : k \in 1..idx}
    /\ PhaseTwoOver =>
           MatchedPairs("position")
               = {<<LeftoverBefore[k], LeftoverAfter[k]>> :
                     k \in 1..Min(Len(LeftoverBefore), Len(LeftoverAfter))}

\* phase 2 is over with two positional pairs, one of them between slides of
\* different indices, title keys and contents
C20_Witness ==
    /\ pc = "sort"
    /\ Cardinality(MatchedPairs("position")) >= 2
    /\ \E p \in MatchedPairs("position") :
           /\ p[1] # p[2]
           /\ TitleKey(before.slides[p[1] + 1].title) # TitleKey(after.slides[p[2] + 1].title)
           /\ before.slides[p[1] + 1].location.content # after.slides[p[2] + 1].location.content

\* the pairs of indices matched by title or by position
Paired == MatchedPairs("title") \cup MatchedPairs("position")

RemovedOnly(m) ==
    /\ IsSome(m.beforeSlide) /\ IsSome(m.beforeIndex)
    /\ m.afterSlide = None /\ m.afterIndex = None

AddedOnly(m) ==
    /\ IsSome(m.afterSlide) /\ IsSome(m.afterIndex)
    /\ m.beforeSlide = None /\ m.beforeIndex = None

\* C21: once phase 3 is over, every before-index in no pair has one entry with its
\* slide, no after side and matchedBy 'none', every after-index in no pair has one
\* entry with its slide, no before side and matchedBy 'none', and there is no other
\* entry with matchedBy 'none'; when before or after is empty nothing is paired and
\* every slide of the other list is such an entry; for two empty lists the result
\* is empty and the summary is all zero
C21_Residue ==
    PhaseTwoOver =>
        LET restBefore == BeforeIndexSet \ {p[1] : p \in Paired}
            restAfter == AfterIndexSet \ {p[2] : p \in Paired}
            residue == {k \in 1..Len(matches) : matches[k].matchedBy = "none"}
        IN  /\ \A b \in restBefore :
                   \E k \in residue :
                       /\ RemovedOnly(matches[k])
                       /\ matches[k].beforeIndex = Some(b)
                       /\ matches[k].beforeSlide = Some(before.slides[b + 1])
            /\ \A a \in restAfter :
                   \E k \in residue :
                       /\ AddedOnly(matches[k])
                       /\ matches[k].afterIndex = Some(a)
                       /\ matches[k].afterSlide = Some(after.slides[a + 1])
            /\ Cardinality(residue) = Cardinality(restBefore) + Cardinality(restAfter)
            /\ (before.slides = <<>> \/ after.slides = <<>>) =>
                   /\ Paired = {}
                   /\ Len(matches) = Len(before.slides) + Len(after.slides)
            /\ (before.slides = <<>> /\ after.slides = <<>>) =>
                   /\ matches = <<>>
                   /\ Returned => summary = EmptySummary

\* phase 3 is over for three slides against one: one pair and two entries without
\* an after side
C21_Witness ==
    /\ pc = "sort"
    /\ Len(before.slides) = 3 /\ Len(after.slides) = 1
    /\ Cardinality(Paired) = 1
    /\ Cardinality({k \in 1..Len(matches) : RemovedOnly(matches[k])}) = 2

\* the sort key written out: beforeIndex if defined, else afterIndex
KeyOf(m) == IF IsSome(m.beforeIndex) THEN m.beforeIndex[1] ELSE m.afterIndex[1]

\* C22: the returned correspondences are in ascending order of key, those with a
\* beforeIndex in strictly increasing beforeIndex, an entry without a before side
\* comes after the entry whose beforeIndex is its afterIndex, and the slideDiffs
\* are in the order of the correspondences
C22_Sorted ==
    /\ MatchSlidesReturned =>
           /\ \A k, l \in 1..Len(matches) : k < l => KeyOf(matches[k]) <= KeyOf(matches[l])
           /\ \A k, l \in 1..Len(matches) :
                  (k < l /\ IsSome(matches[k].beforeIndex) /\ IsSome(matches[l].beforeIndex))
                      => matches[k].beforeIndex[1] < matches[l].beforeIndex[1]
           /\ \A k, l \in 1..Len(matches) :
                  (AddedOnly(matches[k]) /\ matches[l].beforeIndex = matches[k].afterIndex)
                      => l < k
    /\ Classified =>
           /\ Len(slideDiffs) = Len(matches)
           /\ \A k \in 1..Len(matches) :
                  /\ slideDiffs[k].beforeIndex = matches[k].beforeIndex
                  /\ slideDiffs[k].afterIndex = matches[k].afterIndex

\* a returned list in which an entry without a before side follows the entry whose
\* beforeIndex is its afterIndex, after a pair of slides at different indices
C22_Witness ==
    /\ pc = "matched"
    /\ \E p \in Paired : p[1] # p[2]
    /\ \E k, l \in 1..Len(matches) :
           l < k /\ AddedOnly(matches[k]) /\ matches[l].beforeIndex = matches[k].afterIndex

\* C25: matchSlides returns max(before.length, after.length) correspondences,
\* never one without an after side together with one without a before side, and in
\* a returned diff added is max(0, totalSlidesAfter - totalSlidesBefore) and removed
\* is max(0, totalSlidesBefore - totalSlidesAfter)
C25_MaxLength ==
    /\ MatchSlidesReturned =>
           /\ Len(matches) = Max(Len(before.slides), Len(after.slides))
           /\ ~((\E k \in 1..Len(matches) : RemovedOnly(matches[k]))
                 /\ (\E l \in 1..Len(matches) : AddedOnly(matches[l])))
    /\ Returned =>
           /\ summary.added = Max(0, summary.totalSlidesAfter - summary.totalSlidesBefore)
           /\ summary.removed = Max(0, summary.totalSlidesBefore - summary.totalSlidesAfter)

\* a returned diff of one slide against three in which phase 2 paired the one
\* slide: two added, none removed
C25_Witness ==
    /\ Returned
    /\ Len(before.slides) = 1 /\ Len(after.slides) = 3
    /\ MatchedPairs("position") # {}
    /\ summary.added = 2 /\ summary.removed = 0

\* C26: once phase 1 is over no before-index and after-index outside the title
\* pairs have one title key; every positional pair is of two slides of different
\* title keys, and its SlideDiff has titleChanged
C26_TitlePriority ==
    /\ PhaseOneOver =>
           /\ \A b \in BeforeIndexSet \ {p[1] : p \in MatchedPairs("title")} :
                  \A a \in AfterIndexSet \ {p[2] : p \in MatchedPairs("title")} :
                      TitleKey(before.slides[b + 1].title) # TitleKey(after.slides[a + 1].title)
           /\ \A p \in MatchedPairs("position") :
                  TitleKey(before.slides[p[1] + 1].title) # TitleKey(after.slides[p[2] + 1].title)
    /\ Classified =>
           \A k \in 1..Len(slideDiffs) :
               matches[k].matchedBy = "position" => slideDiffs[k].titleChanged

\* a classified diff with a title pair at different indices and a positional pair
C26_Witness ==
    /\ pc = "classified"
    /\ \E p \in MatchedPairs("title") : p[1] # p[2]
    /\ \E k \in 1..Len(slideDiffs) :
           matches[k].matchedBy = "position" /\ slideDiffs[k].titleChanged

-----------------------------------------------------------------------------
(* Properties of normalizeText *)

Chars(str) == {str[k] : k \in 1..Len(str)}

\* C12: normalizeText of a normalized text is that text
C12_Idempotent == npc = "done" => norm11 = norm1

\* a text with a carriage return that normalizeText changed to a non-empty text,
\* normalized a second time
C12_Witness ==
    /\ npc = "done"
    /\ CR \in Chars(argText1)
    /\ norm1 # argText1 /\ norm1 # <<>>
    /\ norm11 = norm1

\* the lines of a text ended by any of \r\n, \r, \n
RECURSIVE LinesAnyTerminator(_, _)
LinesAnyTerminator(str, cur) ==
    IF str = <<>> THEN <<cur>>
    ELSE IF Len(str) >= 2 /\ str[1] = CR /\ str[2] = NL
         THEN <<cur>> \o LinesAnyTerminator(SubSeq(str, 3, Len(str)), <<>>)
    ELSE IF IsLineTerminator(str[1])
         THEN <<cur>> \o LinesAnyTerminator(Tail(str), <<>>)
    ELSE LinesAnyTerminator(Tail(str), Append(cur, str[1]))

\* a text up to its style: its lines, whatever ended them, without their trailing
\* white space, joined by \n, without outer white space
UpToStyle(str) == Trim(Join(MapSeq(TrimEnd, LinesAnyTerminator(str, <<>>))))

\* C13: normalizeText leaves no line terminator other than \n, no trailing white
\* space on a line and no outer white space; texts that differ only in the style
\* of their line terminators, in trailing white space of lines or in outer white
\* space are normalizedTextEquals; a text of white space only normalizes to ''
C13_AllTerminators ==
    npc \in {"compared", "done"} =>
        /\ CR \notin Chars(norm1)
        /\ \A k \in 1..Len(Split(norm1)) : TrimEnd(Split(norm1)[k]) = Split(norm1)[k]
        /\ Trim(norm1) = norm1
        /\ UpToStyle(argText1) = UpToStyle(argText2) => equals
        /\ (\A k \in 1..Len(argText1) : IsWhitespace(argText1[k])) => norm1 = <<>>

-----------------------------------------------------------------------------
(* Properties of updatePresentationSlide and parseMarkdownIntoPresentation *)

\* the index handed to updatePresentationSlide is not one of 0..slides.length-1
InvalidIndex(index) == index < 0 \/ index >= Len(argPresentation.slides)

\* C17: a call of updatePresentationSlide with an index outside
\* 0..slides.length-1 throws 'Invalid slide index', returns nothing and leaves the
\* presentation passed in as it was; a call with an index inside returns a
\* presentation of as many slides
C17_InvalidIndex ==
    [][(ppc' = "updated" /\ ppc # "updated") =>
          IF InvalidIndex(slideIndex')
          THEN /\ thrown' = Some("Invalid slide index")
               /\ updated' = None
               /\ argPresentation' = argPresentation
          ELSE /\ thrown' = None
               /\ IsSome(updated')
               /\ Len(updated'[1].slides) = Len(argPresentation.slides)]_vars

\* updatePresentationSlide called on a presentation of two or more slides with
\* the index just past the last slide has thrown
C17_Witness ==
    /\ ppc = "updated"
    /\ Len(argPresentation.slides) >= 2
    /\ slideIndex = Len(argPresentation.slides)
    /\ thrown = Some("Invalid slide index")

\* the fence a line of the document lies in: the first three characters of the
\* opening fence line that no later line starting with them has closed, if any,
\* once lines 1..k are read
RECURSIVE OpenFenceAfter(_, _)
OpenFenceAfter(lines, k) ==
    IF k = 0 THEN <<>>
    ELSE LET open == OpenFenceAfter(lines, k - 1)
             t == Trim(lines[k])
             mark == IF StartsWith(t, <<BACKTICK, BACKTICK, BACKTICK>>)
                     THEN <<BACKTICK, BACKTICK, BACKTICK>>
                     ELSE IF StartsWith(t, <<"~", "~", "~">>) THEN <<"~", "~", "~">>
                     ELSE <<>>
         IN  IF mark = <<>> THEN open
             ELSE IF open = <<>> THEN mark
             ELSE IF mark = open THEN <<>>
             ELSE open

\* the lines (numbered from 1) that start with # or ## but not ### once trimmed
\* and lie outside every fence
HeadingLines(lines) ==
    {k \in 1..Len(lines) :
        /\ Len(Trim(lines[k])) >= 1 /\ Trim(lines[k])[1] = HASH
        /\ ~(Len(Trim(lines[k])) >= 3 /\ Trim(lines[k])[2] = HASH /\ Trim(lines[k])[3] = HASH)
        /\ OpenFenceAfter(lines, k) = <<>>}

\* C18: a parsed document with more than one heading line outside fences has one
\* slide starting at line 0 and one starting at each such line after line 0; any
\* other document, the empty string included, is one slide starting at line 0
C18_Splitting ==
    ppc = "parsed" =>
        LET lines == Split(argMarkdown)
            headings == HeadingLines(lines)
            slides == argPresentation.slides
            starts == {slides[n].location.startLine : n \in 1..Len(slides)}
        IN  /\ Len(slides) >= 1
            /\ IF Cardinality(headings) > 1
               THEN /\ Len(slides) = Cardinality(headings \ {1}) + 1
                    /\ starts = {0} \cup {k - 1 : k \in headings \ {1}}
               ELSE /\ Len(slides) = 1
                    /\ starts = {0}

\* a parsed document of two headings, an opening fence and a heading-like line
\* inside the fence: two slides, the second one holding the last three lines
C18_Witness ==
    /\ ppc = "parsed"
    /\ LET lines == Split(argMarkdown)
       IN  /\ Len(lines) = 4
           /\ IsHeaderLine(lines[1])
           /\ IsHeaderLine(lines[2])
           /\ OpenFenceAfter(lines, 3) # <<>>
           /\ IsHeaderLine(lines[4])
    /\ Len(argPresentation.slides) = 2
    /\ argPresentation.slides[2].location.startLine = 1
    /\ argPresentation.slides[2].location.endLine = 3

-----------------------------------------------------------------------------
(* Order of the changed lines of diffText, and termination *)

\* the places where the two lists of lines differ
DifferingLines == {k \in 1..Min(Len(beforeLines), Len(afterLines)) : beforeLines[k] # afterLines[k]}

\* the output has no 'add' entry immediately followed by a 'remove' entry
NoAddThenRemove ==
    \A k \in 1..(Len(result) - 1) :
        ~(result[k].type = "add" /\ result[k + 1].type = "remove")

\* the two texts have as many lines and differ in the line at place k only
SingleReplacedLine(k) ==
    /\ Len(beforeLines) = Len(afterLines)
    /\ DifferingLines = {k}

\* the output has the 'remove' of the old line at place k immediately followed by
\* the 'add' of the new line
RemoveThenAddAt(k) ==
    /\ Len(result) = Len(beforeLines) + 1
    /\ result[k].type = "remove" /\ result[k].value = beforeLines[k]
    /\ result[k + 1].type = "add" /\ result[k + 1].value = afterLines[k]

\* C23 as stated: in the output of diffText no 'add' entry is immediately followed
\* by a 'remove' entry, and a single replaced line appears as its 'remove'
\* immediately followed by its 'add'
C23_RemoveBeforeAdd ==
    tpc = "done" =>
        /\ NoAddThenRemove
        /\ \A k \in 1..Len(beforeLines) : SingleReplacedLine(k) => RemoveThenAddAt(k)

\* C23 amended: in the output of diffText no 'add' entry is immediately followed by
\* a 'remove' entry, and a single replaced line appears as its 'remove' immediately
\* followed by its 'add' when it is the first line or its old text differs from the
\* line before it; when the old text repeats the line before it, the 'remove' is
\* that of an earlier copy and 'unchanged' entries separate it from the 'add'
C23_RemoveBeforeAddUnlessRepeated ==
    tpc = "done" =>
        /\ NoAddThenRemove
        /\ \A k \in 1..Len(beforeLines) :
               SingleReplacedLine(k) =>
                   IF k = 1 \/ beforeLines[k] # beforeLines[k - 1]
                   THEN RemoveThenAddAt(k)
                   ELSE /\ Len(result) = Len(beforeLines) + 1
                        /\ result[k + 1].type = "add" /\ result[k + 1].value = afterLines[k]
                        /\ \E r \in 1..(k - 1) :
                               /\ result[r].type = "remove"
                               /\ result[r].value = beforeLines[k]
                               /\ \A u \in (r + 1)..k : result[u].type = "unchanged"

\* two texts of two lines whose second lines differ, the old second line unlike
\* the first: unchanged, remove, add
C23_Witness ==
    /\ tpc = "done"
    /\ SingleReplacedLine(2)
    /\ beforeLines[2] # beforeLines[1]
    /\ result[2].type = "remove" /\ result[3].type = "add"

\* the longest text of the calls of diffText followed to their end
MaxTermLen == 2

\* the most slides of the calls of diffPresentations followed to their end
MaxTermSlides == 1

\* one call of diffText, or one call of diffPresentations
InitTerminate ==
    /\ IdleReport /\ IdleBash /\ IdleNorm /\ IdlePres
    /\ \/ /\ beforeContent \in StringsUpTo(TextAlphabet, MaxTermLen)
          /\ afterContent \in StringsUpTo(TextAlphabet, MaxTermLen)
          /\ beforeLines = <<>> /\ afterLines = <<>> /\ lcs = <<>>
          /\ i = 0 /\ j = 0 /\ result = <<>> /\ tpc = "call"
          /\ IdleDiff
       \/ /\ IdleText
          /\ markdownBefore = <<>> /\ markdownAfter = <<>>
          /\ before \in {PresentationOf(ss) : ss \in StringsUpTo(PairingPool, MaxTermSlides)}
          /\ after \in {PresentationOf(ss) : ss \in StringsUpTo(PairingPool, MaxTermSlides)}
          /\ matches = <<>> /\ matchedBeforeIndices = {} /\ matchedAfterIndices = {}
          /\ unmatchedBeforeIndices = <<>> /\ unmatchedAfterIndices = <<>> /\ idx = 0
          /\ slideDiffs = <<>> /\ summary = EmptySummary /\ pc = "phase1"

NextTerminate == NextText \/ NextDiff

\* a call runs on its caller's thread without awaiting anything: the statement at
\* which it stands is executed as long as there is one
SpecTerminate == InitTerminate /\ [][NextTerminate]_vars /\ WF_vars(NextTerminate)

\* the condition of the branch of the loop body taken at i, j, reading the table
\* only where the source reads it
BranchesTaken ==
    LET same == i > 0 /\ j > 0 /\ beforeLines[i] = afterLines[j]
        add == j > 0 /\ (i = 0 \/ lcs[i, j - 1] >= lcs[i - 1, j])
        remove == i > 0 /\ (j = 0 \/ lcs[i, j - 1] < lcs[i - 1, j])
    IN  {b \in {"same", "add", "remove"} :
            \/ b = "same" /\ same
            \/ b = "add" /\ ~same /\ add
            \/ b = "remove" /\ ~same /\ ~add /\ remove}

\* C24: every call of diffText ends with a result and i = j = 0, every call of
\* diffPresentations (matchSlides within it) ends with its result, and every
\* iteration of the backtracking loop entered with i > 0 or j > 0 takes one of its
\* three branches, lowers i + j by one or two and leaves i and j at 0 or above
C24_Terminates ==
    /\ [][(tpc = "loop" /\ (i > 0 \/ j > 0)) =>
              /\ Cardinality(BranchesTaken) = 1
              /\ i' + j' < i + j
              /\ i' >= 0 /\ j' >= 0
              /\ i' \in {i, i - 1} /\ j' \in {j, j - 1}
              /\ Len(result') = Len(result) + 1]_vars
    /\ (tpc = "call") ~> (tpc = "done" /\ i = 0 /\ j = 0)
    /\ (pc = "phase1") ~> (pc = "done" /\ Len(slideDiffs) = Len(matches))

\* a finished call of diffText on two lines against two whose loop took each of
\* its branches once
C24_Witness ==
    /\ tpc = "done" /\ i = 0 /\ j = 0
    /\ Len(beforeLines) = 2 /\ Len(afterLines) = 2
    /\ {result[k].type : k \in 1..Len(result)} = {"unchanged", "add", "remove"}

-----------------------------------------------------------------------------
(* The content changes of a modified slide *)

\* the places where two lists of lines of one length differ
ReplacedLines(bl, al) ==
    IF Len(bl) = Len(al) THEN {k \in 1..Len(bl) : bl[k] # al[k]} ELSE {}

HasEntry(changes, type, value) ==
    \E e \in 1..Len(changes) : changes[e].type = type /\ changes[e].value = value

\* C27: every SlideDiff with status 'modified' has a contentChanges list with an
\* entry of type 'add' or 'remove', and when the two contents have as many lines
\* and differ in one line only, the list has a 'remove' entry with the old line
\* and an 'add' entry with the new line
C27_ContentChanges ==
    Classified =>
        \A k \in 1..Len(slideDiffs) :
            slideDiffs[k].status = "modified" =>
                LET d == slideDiffs[k]
                    bl == SplitLines(d.beforeSlide[1].location.content)
                    al == SplitLines(d.afterSlide[1].location.content)
                IN  /\ IsSome(d.contentChanges)
                    /\ \E e \in 1..Len(d.contentChanges[1]) :
                           d.contentChanges[1][e].type \in {"add", "remove"}
                    /\ Cardinality(ReplacedLines(bl, al)) = 1 =>
                           \A p \in ReplacedLines(bl, al) :
                               /\ HasEntry(d.contentChanges[1], "remove", bl[p])
                               /\ HasEntry(d.contentChanges[1], "add", al[p])

\* a modified slide of two lines whose second line was replaced: its changes are
\* the unchanged first line, the 'remove' of the old and the 'add' of the new line
C27_Witness ==
    /\ Classified
    /\ Len(slideDiffs) = 1
    /\ slideDiffs[1].status = "modified"
    /\ ReplacedLines(SplitLines(slideDiffs[1].beforeSlide[1].location.content),
                     SplitLines(slideDiffs[1].afterSlide[1].location.content)) = {2}
    /\ Len(slideDiffs[1].contentChanges[1]) = 3
    /\ slideDiffs[1].contentChanges[1][2].type = "remove"
    /\ slideDiffs[1].contentChanges[1][3].type = "add"

-----------------------------------------------------------------------------
(* Presentations reached by parsing and updating *)

RECURSIVE ConcatLines(_)
\* the lines of the contents of the slides, one slide after the other
ConcatLines(slides) ==
    IF slides = <<>> THEN <<>>
    ELSE Split(slides[1].location.content) \o ConcatLines(Tail(slides))

\* the contents of the slides joined by line feeds, written out
JoinedContents(p) == Join([k \in 1..Len(p.slides) |-> p.slides[k].location.content])

\* C28: a parsed presentation, and every presentation returned by a successful
\* updatePresentationSlide on a presentation so reached, serializes to its
\* originalContent; a freshly parsed one serializes to the input markdown, and
\* the lines of its slides, in order, are the lines of the input
C28_RoundTrip ==
    /\ ppc \in {"parsed", "adopted"} =>
           /\ SerializePresentationToMarkdown(argPresentation) = argPresentation.originalContent
           /\ JoinedContents(argPresentation) = argPresentation.originalContent
    /\ ppc = "parsed" =>
           /\ SerializePresentationToMarkdown(argPresentation) = argMarkdown
           /\ ConcatLines(argPresentation.slides) = Split(argMarkdown)
    /\ (ppc = "updated" /\ IsSome(updated)) =>
           SerializePresentationToMarkdown(updated[1]) = updated[1].originalContent

\* a presentation of two slides after two successful updates: it no longer
\* serializes to the parsed document but to its own originalContent
C28_Witness ==
    /\ ppc = "updated" /\ IsSome(updated)
    /\ Len(updated[1].slides) = 2
    /\ argPresentation.originalContent # argMarkdown
    /\ updated[1].originalContent # argPresentation.originalContent
    /\ SerializePresentationToMarkdown(updated[1]) = updated[1].originalContent

\* the line ranges of the slides describe the originalContent
LineRangesDescribe(p) ==
    /\ Len(p.slides) > 0
    /\ p.slides[1].location.startLine = 0
    /\ \A k \in 2..Len(p.slides) :
           p.slides[k].location.startLine = p.slides[k - 1].location.endLine + 1
    /\ p.slides[Len(p.slides)].location.endLine = Len(Split(p.originalContent)) - 1
    /\ \A k \in 1..Len(p.slides) :
           p.slides[k].location.endLine - p.slides[k].location.startLine + 1
               = Len(Split(p.slides[k].location.content))

\* C29: in a parsed presentation, and in every presentation returned by a
\* successful updatePresentationSlide on a presentation so reached, slide 0 starts
\* at line 0, every next slide starts one line after the end of the one before it,
\* the last slide ends at the last line of originalContent, and every slide has as
\* many lines as its range
C29_LineRanges ==
    /\ ppc \in {"parsed", "adopted"} => LineRangesDescribe(argPresentation)
    /\ (ppc = "updated" /\ IsSome(updated)) => LineRangesDescribe(updated[1])

-----------------------------------------------------------------------------
(* parseBashCommands, one call *)

\* the most lines of a bash code block
MaxBashLines == 3

\* the lines of the code blocks: a plain command, a line ending with a backslash,
\* with a pipe and with a semicolon, a line starting with &&, a comment, a blank
BashLinePool ==
    { <<"a">>, <<"b", SP, BACKSLASH>>, <<"c", SP, "|">>, <<SP, "a", ";">>,
      <<"&", "&", SP, "d">>, <<HASH, SP, "e">>, <<>> }

CodeBlocks == {Join(ls) : ls \in StringsUpTo(BashLinePool, MaxBashLines)}

\* const lines = codeString.split('\n') and the initial values of the locals
ParseBashCall ==
    /\ bpc = "call"
    /\ bashLines' = Split(codeString)
    /\ commands' = <<>>
    /\ currentCommand' = <<>>
    /\ commandStartLine' = 0
    /\ currentDescription' = <<>>
    /\ inBackslashContinuation' = FALSE
    /\ lineIdx' = 0
    /\ bpc' = "loop"
    /\ UNCHANGED <<textVars, diffVars, reportVars, normVars, presVars, codeString>>

\* one iteration of for (let i = 0; i < lines.length; i++)
BashLineIter ==
    /\ bpc = "loop"
    /\ lineIdx < Len(bashLines)
    /\ LET st == BashLineStep([commands |-> commands,
                               currentCommand |-> currentCommand,
                               commandStartLine |-> commandStartLine,
                               currentDescription |-> currentDescription,
                               inBackslashContinuation |-> inBackslashContinuation],
                              bashLines[lineIdx + 1], lineIdx)
       IN  /\ commands' = st.commands
           /\ currentCommand' = st.currentCommand
           /\ commandStartLine' = st.commandStartLine
           /\ currentDescription' = st.currentDescription
           /\ inBackslashContinuation' = st.inBackslashContinuation
    /\ lineIdx' = lineIdx + 1
    /\ UNCHANGED <<textVars, diffVars, reportVars, normVars, presVars, codeString, bashLines, bpc>>

\* the loop exit, the last push and the filter
BashReturn ==
    /\ bpc = "loop"
    /\ lineIdx >= Len(bashLines)
    /\ commands' = BashFinish([commands |-> commands,
                               currentCommand |-> currentCommand,
                               commandStartLine |-> commandStartLine,
                               currentDescription |-> currentDescription,
                               inBackslashContinuation |-> inBackslashContinuation])
    /\ bpc' = "done"
    /\ UNCHANGED <<textVars, diffVars, reportVars, normVars, presVars, codeString, bashLines,
                   currentCommand, commandStartLine, currentDescription,
                   inBackslashContinuation, lineIdx>>

InitBash ==
    /\ IdleText /\ IdleDiff /\ IdleReport /\ IdleNorm /\ IdlePres
    /\ codeString \in CodeBlocks
    /\ bashLines = <<>> /\ commands = <<>>
    /\ currentCommand = <<>> /\ commandStartLine = 0 /\ currentDescription = <<>>
    /\ inBackslashContinuation = FALSE /\ lineIdx = 0 /\ bpc = "call"

NextBash == ParseBashCall \/ BashLineIter \/ BashReturn

SpecBash == InitBash /\ [][NextBash]_vars

-----------------------------------------------------------------------------
(* Properties of parseBashCommands *)

\* line k (from 1) is neither blank nor a comment
IsCommandLine(k) ==
    /\ Trim(bashLines[k]) # <<>>
    /\ ~StartsWith(Trim(bashLines[k]), <<HASH>>)

EndsWithContinuation(l) ==
    \/ EndsWith(TrimEnd(l), <<BACKSLASH>>)
    \/ EndsWith(TrimEnd(l), <<"|">>)
    \/ EndsWith(TrimEnd(l), <<"&", "&">>)
    \/ EndsWith(TrimEnd(l), <<";">>)

StartsWithOperator(l) ==
    \/ StartsWith(Trim(l), <<"|">>)
    \/ StartsWith(Trim(l), <<"&", "&">>)

\* the line before line k, comments passed over: 0 if there is none
PreviousLine(k) ==
    LET earlier == {m \in 1..(k - 1) : ~StartsWith(Trim(bashLines[m]), <<HASH>>)}
    IN  IF earlier = {} THEN 0 ELSE CHOOSE m \in earlier : \A o \in earlier : o <= m

\* line k continues the previous line
ContinuesPrevious(k) ==
    \/ PreviousLine(k) > 0 /\ EndsWithContinuation(bashLines[PreviousLine(k)])
    \/ StartsWithOperator(bashLines[k])

\* the lines that start a new command
CommandStarts ==
    {k \in 1..Len(bashLines) : IsCommandLine(k) /\ ~ContinuesPrevious(k)}

\* what a line gives to its command: the line trimmed, without its final backslash
Piece(l) ==
    IF EndsWith(TrimEnd(l), <<BACKSLASH>>)
    THEN Trim(SubSeq(TrimEnd(l), 1, Len(TrimEnd(l)) - 1))
    ELSE Trim(l)

RECURSIVE JoinSpaces(_)
JoinSpaces(parts) ==
    IF parts = <<>> THEN <<>>
    ELSE IF Len(parts) = 1 THEN parts[1]
    ELSE parts[1] \o <<SP>> \o JoinSpaces(Tail(parts))

RECURSIVE PiecesFrom(_, _)
\* the pieces of the command lines from line k to line last
PiecesFrom(k, last) ==
    IF k > last THEN <<>>
    ELSE (IF IsCommandLine(k) THEN <<Piece(bashLines[k])>> ELSE <<>>) \o PiecesFrom(k + 1, last)

\* C30: parseBashCommands returns its entries in source order; every line that is
\* neither blank nor a comment and does not continue the previous line (the line
\* before it, comments passed over, does not end with a backslash, '|', '&&', '||'
\* or ';', and the line does not start with '|', '&&' or '||') has an entry whose
\* line field is its 1-based number, also when the line ends with a backslash; and
\* the command of every entry is the lines from its line to the line before the
\* next entry's, joined with single spaces
C30_OneEntryPerCommand ==
    bpc = "done" =>
        /\ \A e, f \in 1..Len(commands) : e < f => commands[e].line < commands[f].line
        /\ \A k \in CommandStarts : \E e \in 1..Len(commands) : commands[e].line = k
        /\ \A e \in 1..Len(commands) :
               LET last == IF e < Len(commands) THEN commands[e + 1].line - 1
                           ELSE Len(bashLines)
               IN  commands[e].command = JoinSpaces(PiecesFrom(commands[e].line, last))

====
